---- MODULE Spec2Model ----
(***************************************************************************)
(* A model of the FullCache service-worker caching engine:                 *)
(*   - the policy store's hierarchical settings resolution,               *)
(*   - cache-key construction and reversal,                               *)
(*   - the per-request pipeline (connectAndFetch / getResponse /          *)
(*     fetchAndStoreInCache),                                             *)
(*   - the stale sweep (deleteStaleEntries) and clear,                    *)
(*   - the cross-tab deduplication layer with its heartbeat manager.      *)
(*                                                                         *)
(* JavaScript objects are functions over their own keys: a key that is    *)
(* not in DOMAIN is an absent property.  A URL pathname and a query       *)
(* parameter name are sequences of tokens, so that a leading "/" or a     *)
(* leading "__" can be looked at.  Every await of the source is a point   *)
(* where another task may run: an action is the synchronous code between  *)
(* two awaits.                                                             *)
(***************************************************************************)
EXTENDS Integers, Sequences, FiniteSets, TLC

VARIABLES
  now,        \* Date.now(), in ms
  current,    \* CacheConfigStore.#current, per instance
  store,      \* the shared response store (CacheStorage bucket): key -> entry
  req,        \* the intercepted requests: position in the pipeline and bookkeeping
  inFlight,   \* inFlightRequests, per instance: key -> the call that owns the Deferred
  deferred,   \* the Deferred created by each owning getDedupedResponse call
  heartbeats, \* task-heartbeat-manager heartbeats map, per instance
  intervals,  \* task-heartbeat-manager intervals map, per instance: next tick time
  timeouts,   \* the setTimeout of each owning getDedupedResponse call: its deadline
  chan,       \* BroadcastChannel messages not yet delivered, per receiving instance
  sweep,      \* the onSet handlers (deleteStaleEntries) started so far
  sets,       \* how many policy changes have happened (bounded)
  alive,      \* the instances that are running (their BroadcastChannel is open)
  peerSeen,   \* per instance and key: when a peer's task-heartbeat last arrived
  sync,       \* instance A's policy stream client, fallback polling manager and
              \* the reset handlers under way
  persist,    \* instance A's durable policy record (IndexedDB), the store's
              \* cleanup timer and its set / load calls under way
  warm        \* instance A's debouncedWarmUpCache: the timers of debounce, the
              \* promises it returned and the warmUpCache invocations

vars == <<now, current, store, req, inFlight, deferred, heartbeats, intervals,
          timeouts, chan, sweep, sets, alive, peerSeen, sync, persist, warm>>

-----------------------------------------------------------------------------
(* Bounds of the model *)

\* clock ticks the pipeline specification lets pass
PipeMaxTicks == 1
\* clock ticks the deduplication specification lets pass
DedupMaxTicks == 21
\* policy changes (set / reset) after start-up
MaxPolicySets == 1

(* Program constants *)

\* task-heartbeat-manager.js: const heartbeatIntervalMs = 500
heartbeatIntervalMs == 500
\* getDedupedResponse(key, fetcher, timeoutMs = 10000)
timeoutMs == 10000

keySearchParamPrefix == "__"
defaultPrefetchMode == "never"

-----------------------------------------------------------------------------
(* Absent values.  Each is a record, so that it compares with the records *)
(* and functions it stands in for.                                         *)

NoPolicy == [null |-> TRUE]
NoSettings == [undefined |-> TRUE]
NoEntry == [absent |-> TRUE]
NoKey == [nokey |-> TRUE]
None == "none"

IsSettings(s) == "prefetch" \in DOMAIN s
IsEntry(e) == "ts" \in DOMAIN e

-----------------------------------------------------------------------------
(* The value of the x-cache-timestamp header of a stored response, and    *)
(* JavaScript's unary plus applied to headers.get(...).                   *)

HdrNum(n) == [kind |-> "num", v |-> n]
HdrMissing == [kind |-> "missing", v |-> 0]
HdrBad == [kind |-> "bad", v |-> 0]

\* +null is 0, +"12" is 12, +"abc" is NaN
ToNumber(h) ==
  CASE h.kind = "num" -> [nan |-> FALSE, v |-> h.v]
    [] h.kind = "missing" -> [nan |-> FALSE, v |-> 0]
    [] OTHER -> [nan |-> TRUE, v |-> 0]

-----------------------------------------------------------------------------
(* URLs, pathnames *)

\* url.pathname.replace(/^\/|\/$/g, ''): one leading and one trailing slash go
getNormalizedPathname(pathname) ==
  LET a == IF Len(pathname) > 0 /\ Head(pathname) = "/" THEN Tail(pathname) ELSE pathname
  IN IF Len(a) > 0 /\ a[Len(a)] = "/" THEN SubSeq(a, 1, Len(a) - 1) ELSE a

\* the URL pathname setter: a path always starts with a slash
SetPathname(p) ==
  IF Len(p) > 0 /\ Head(p) = "/" THEN p ELSE <<"/">> \o p

-----------------------------------------------------------------------------
(* Policy Store: resolveRequestSettings *)

Prop(obj, k) == IF k \in DOMAIN obj THEN obj[k] ELSE <<>>
Has(obj, k) == k \in DOMAIN obj

\* String.prototype.toUpperCase on the method names of this model
toUpperCase(m) ==
  CASE m = "patch" -> "PATCH"
    [] m = "get" -> "GET"
    [] OTHER -> m

\* a merge in which the level nearer the root wins
MergeLevels_RootWins(levels) ==
  LET RECURSIVE Go(_, _)
      Go(i, acc) == IF i > Len(levels) THEN acc ELSE Go(i + 1, acc @@ levels[i])
  IN Go(1, <<>>)

\* [a, b, c, d].filter(Boolean).reduce((acc, level) => ({...acc, ...level}), {})
MergeLevels(levels) ==
  LET RECURSIVE Go(_, _)
      Go(i, acc) == IF i > Len(levels) THEN acc ELSE Go(i + 1, levels[i] @@ acc)
  IN Go(1, <<>>)

\* a resolver that leaves out the blackList test of line 196
resolveRequestSettings_IgnoresBlackList(cur, request, blackList) ==
  IF cur = NoPolicy THEN NoSettings
  ELSE IF ~Has(cur, "hosts") \/ ~Has(cur.hosts, request.origin) THEN NoSettings
  ELSE
    LET hostConfig == cur.hosts[request.origin]
        cleanedPathname == getNormalizedPathname(request.pathname)
        hasEndpoint == Has(hostConfig, "endpoints") /\ Has(hostConfig.endpoints, cleanedPathname)
        endpointConfig == IF hasEndpoint THEN hostConfig.endpoints[cleanedPathname] ELSE <<>>
        method == toUpperCase(request.method)
        hasMethod == hasEndpoint /\ Has(endpointConfig, "methods")
                       /\ Has(endpointConfig.methods, method)
        levels == (IF Has(cur, "settings") THEN <<cur.settings>> ELSE <<>>)
                  \o (IF Has(hostConfig, "settings") THEN <<hostConfig.settings>> ELSE <<>>)
                  \o (IF hasEndpoint /\ Has(endpointConfig, "settings")
                        THEN <<endpointConfig.settings>> ELSE <<>>)
                  \o (IF hasMethod THEN <<endpointConfig.methods[method]>> ELSE <<>>)
    IN IF Len(levels) = 0 THEN NoSettings
       ELSE MergeLevels(levels) @@ [keyHeaders |-> <<>>, prefetch |-> defaultPrefetchMode]

\* blackList is a set of origins; the empty set stands for an omitted argument
resolveRequestSettings(cur, request, blackList) ==
  IF cur = NoPolicy THEN NoSettings
  ELSE IF request.origin \in blackList THEN NoSettings
  ELSE IF ~Has(cur, "hosts") \/ ~Has(cur.hosts, request.origin) THEN NoSettings
  ELSE
    LET hostConfig == cur.hosts[request.origin]
        cleanedPathname == getNormalizedPathname(request.pathname)
        hasEndpoint == Has(hostConfig, "endpoints") /\ Has(hostConfig.endpoints, cleanedPathname)
        endpointConfig == IF hasEndpoint THEN hostConfig.endpoints[cleanedPathname] ELSE <<>>
        method == toUpperCase(request.method)
        hasMethod == hasEndpoint /\ Has(endpointConfig, "methods")
                       /\ Has(endpointConfig.methods, method)
        levels == (IF Has(cur, "settings") THEN <<cur.settings>> ELSE <<>>)
                  \o (IF Has(hostConfig, "settings") THEN <<hostConfig.settings>> ELSE <<>>)
                  \o (IF hasEndpoint /\ Has(endpointConfig, "settings")
                        THEN <<endpointConfig.settings>> ELSE <<>>)
                  \o (IF hasMethod THEN <<endpointConfig.methods[method]>> ELSE <<>>)
    IN IF Len(levels) = 0 THEN NoSettings
       ELSE MergeLevels(levels) @@ [keyHeaders |-> <<>>, prefetch |-> defaultPrefetchMode]

-----------------------------------------------------------------------------
(* Cache-key construction and reversal (utils.js) *)

\* Query-parameter names in UTF-16 code-unit order, as URLSearchParams.sort
\* compares them: upper-case letters sort before "_", lower-case after.
NameOrder ==
  << <<"Z">>, <<"__", "body">>, <<"__", "header-", "x-tenant">>, <<"__", "method">>,
     <<"__", "x">>, <<"a">>, <<"b">> >>

NameRank(name) == CHOOSE i \in 1..Len(NameOrder) : NameOrder[i] = name

\* URLSearchParams.set: the first pair of that name takes the value and the
\* other pairs of that name go; with no such pair, one is appended
ParamsSet(list, name, value) ==
  LET idx == {i \in 1..Len(list) : list[i][1] = name}
  IN IF idx = {} THEN Append(list, <<name, value>>)
     ELSE LET first == CHOOSE i \in idx : \A j \in idx : i <= j
              keep == [i \in 1..Len(list) |-> i = first \/ list[i][1] # name]
              RECURSIVE Go(_)
              Go(i) == IF i > Len(list) THEN <<>>
                       ELSE (IF keep[i]
                               THEN << IF i = first THEN <<name, value>> ELSE list[i] >>
                               ELSE <<>>) \o Go(i + 1)
          IN Go(1)

\* URLSearchParams.delete(name): every pair of that name goes
ParamsDelete(list, name) == SelectSeq(list, LAMBDA p : p[1] # name)

\* URLSearchParams.sort: a stable sort by name
ParamsSort(list) ==
  LET RECURSIVE Insert(_, _)
      Insert(sorted, p) ==
        IF sorted = <<>> THEN <<p>>
        ELSE IF NameRank(p[1]) < NameRank(Head(sorted)[1])
               THEN <<p>> \o sorted
               ELSE <<Head(sorted)>> \o Insert(Tail(sorted), p)
      RECURSIVE Go(_, _)
      Go(i, acc) == IF i > Len(list) THEN acc ELSE Go(i + 1, Insert(acc, list[i]))
  IN Go(1, <<>>)

\* Request headers are a list of <<name, value>> pairs in the order the caller
\* gave them.  headers.get(name): the value, or null (here the empty string,
\* which is falsy like null wherever the source reads it)
HeaderGet(headers, name) ==
  LET idx == {i \in 1..Len(headers) : headers[i][1] = name}
  IN IF idx = {} THEN "" ELSE headers[CHOOSE i \in idx : \A j \in idx : i <= j][2]

\* x || 'none'
OrNone(x) == IF x = "" THEN "none" ELSE x

\* The body texts of this model that parse as a JSON object, with the
\* properties in the order of the text
JsonBodies ==
  ("{a:1,b:2}" :> << << <<"a">>, "1" >>, << <<"b">>, "2" >> >>)
  @@ ("{b:2,a:1}" :> << << <<"b">>, "2" >>, << <<"a">>, "1" >> >>)
  @@ ("{a:1}" :> << << <<"a">>, "1" >> >>)
  @@ ("{a:2}" :> << << <<"a">>, "2" >> >>)

\* The body texts that parse as a form, with the pairs in the order of the text
FormBodies ==
  ("a=1&b=2" :> << << <<"a">>, "1" >>, << <<"b">>, "2" >> >>)
  @@ ("b=2&a=1" :> << << <<"b">>, "2" >>, << <<"a">>, "1" >> >>)
  @@ ("a=1&a=2" :> << << <<"a">>, "1" >>, << <<"a">>, "2" >> >>)
  @@ ("a=2&a=1" :> << << <<"a">>, "2" >>, << <<"a">>, "1" >> >>)

\* JSON.stringify / URLSearchParams.toString of a list of pairs: the text
\* that lists them in that order
TextOf(table, pairs) == CHOOSE t \in DOMAIN table : table[t] = pairs

\* GET and HEAD give ''; a JSON object is rebuilt with its keys sorted and
\* stringified; a form is sorted (stably, by name) and stringified; any other
\* body is its text.  (A JSON body that is no object is not among the inputs.)
serializeRequestBodyForKey(request) ==
  LET contentType == HeaderGet(request.headers, "content-type")
  IN IF request.method \in {"GET", "HEAD"} THEN ""
     ELSE IF contentType = "application/json" /\ request.body \in DOMAIN JsonBodies
       THEN TextOf(JsonBodies, ParamsSort(JsonBodies[request.body]))
     ELSE IF contentType = "application/x-www-form-urlencoded"
               /\ request.body \in DOMAIN FormBodies
       THEN TextOf(FormBodies, ParamsSort(FormBodies[request.body]))
     ELSE request.body

\* The key is itself a Request: new Request(clonedUrl, {headers}) is a GET
buildCacheKeyRequest(request, keyHeaders) ==
  LET body == serializeRequestBodyForKey(request)
      s1 == ParamsSet(request.search, <<keySearchParamPrefix, "body">>, OrNone(body))
      s2 == ParamsSet(s1, <<keySearchParamPrefix, "method">>, request.method)
      RECURSIVE Hdrs(_, _)
      Hdrs(i, acc) ==
        IF i > Len(keyHeaders) THEN acc
        ELSE Hdrs(i + 1,
                  ParamsSet(acc, <<keySearchParamPrefix, "header-", keyHeaders[i]>>,
                            OrNone(HeaderGet(request.headers, keyHeaders[i]))))
  IN [origin |-> request.origin,
      pathname |-> SetPathname(getNormalizedPathname(request.pathname)),
      search |-> ParamsSort(Hdrs(1, s2)),
      method |-> "GET",
      headers |-> request.headers,
      body |-> ""]

\* for (const key of searchParams.keys()) if (key.startsWith('__')) delete(key):
\* the iterator walks the live list by index, so a deletion moves the next
\* pair into the slot just visited and that pair is not looked at
revertCacheKeyRequest(request) ==
  LET RECURSIVE Loop(_, _)
      Loop(list, i) ==
        IF i > Len(list) THEN list
        ELSE IF Head(list[i][1]) = keySearchParamPrefix
               THEN Loop(ParamsDelete(list, list[i][1]), i + 1)
               ELSE Loop(list, i + 1)
  IN [origin |-> request.origin,
      pathname |-> request.pathname,
      search |-> Loop(request.search, 1),
      method |-> request.method,
      headers |-> request.headers,
      body |-> ""]

\* The URL of a request: what the response store and inFlightRequests key on
UrlOf(request) ==
  [origin |-> request.origin, pathname |-> request.pathname, search |-> request.search]

-----------------------------------------------------------------------------
(* The environment: instances, env configuration, policies the server may *)
(* deliver, requests the pages may issue                                   *)

Insts == {"A", "B"}
ReqIds == 1..3
\* the instance that intercepts each request
ReqInst == <<"A", "A", "B">>

\* env.ignoreOrigins
ignoreOrigins == {"https://dev.example"}

Api == "https://api.example.com"
Dev == "https://dev.example"
Cdn == "https://cdn.example"

\* ttl-driven policy; "items" declares neither ttl nor lastModified
PolTtl ==
  [hosts |->
     (Api :> [endpoints |->
                (<<"users">> :> [methods |-> ("GET" :> [ttl |-> 500]
                                               @@ "POST" :> [ttl |-> 1000])]
                 @@ <<"items">> :> [methods |-> ("GET" :> [prefetch |-> "always"])])]
      @@ Dev :> [endpoints |-> (<<"users">> :> [methods |-> ("GET" :> [ttl |-> 500])])])]

\* lastModified pushed by the server: g for the endpoint, p for its POST;
\* a root-level ttl; no "items" endpoint
PolLm(g, p) ==
  [settings |-> [ttl |-> 1000],
   hosts |->
     (Api :> [endpoints |->
                (<<"users">> :> [settings |-> [lastModified |-> g],
                                 methods |-> ("GET" :> [keyHeaders |-> <<"x-tenant">>]
                                               @@ "POST" :> [lastModified |-> p])])])]

\* the policy of the deduplication scenarios (README: ttl 60000)
PolLong ==
  [hosts |-> (Api :> [endpoints |->
                (<<"users">> :> [methods |-> ("GET" :> [ttl |-> 60000])])])]

\* the policies an instance may start with
InitPolicies == {PolTtl, PolLm(0, 0)}
\* the policies the server may deliver at time t: a modification time it
\* reports is not in the future
PoliciesAt(t) == {PolTtl, PolLm(0, 0), PolLm(t, t), PolLm(0, t)}

MkRequest(origin, pathname, method, body) ==
  [origin |-> origin, pathname |-> pathname, search |-> <<>>, method |-> method,
   headers |-> << <<"x-tenant", "t1">> >>, body |-> body]

ReqUsersGet == MkRequest(Api, <<"/", "users">>, "GET", "")
ReqUsersPost == MkRequest(Api, <<"/", "users", "/">>, "POST", "b")
ReqItemsGet == MkRequest(Api, <<"/", "items">>, "GET", "")
ReqDevGet == MkRequest(Dev, <<"/", "users">>, "GET", "")
ReqCdnGet == MkRequest(Cdn, <<"/", "users">>, "GET", "")
NoRequest == MkRequest("", <<>>, "", "")

PipeInputs == {ReqUsersGet, ReqUsersPost, ReqItemsGet, ReqDevGet, ReqCdnGet}
DedupInputs == {ReqUsersGet}

\* what the network may answer: a 2xx response, a non-2xx response, a failure
NetOutcomes == {"ok", "notok", "error"}

-----------------------------------------------------------------------------
(* Finite maps with a changing domain (Map.set, Map.delete) *)

MapSet(f, k, v) == (k :> v) @@ f
MapDelete(f, k) == [x \in (DOMAIN f) \ {k} |-> f[x]]
EmptyMap == [x \in {} |-> 0]

\* The response store keeps its entries in insertion order (cache.keys()).
StoreIndex(st, url) == {i \in 1..Len(st) : st[i].url = url}
\* cache.match(key)
StoreMatch(st, url) ==
  IF StoreIndex(st, url) = {} THEN NoEntry ELSE st[CHOOSE i \in StoreIndex(st, url) : TRUE]
\* cache.delete(key)
StoreDelete(st, url) == SelectSeq(st, LAMBDA e : e.url # url)
\* a put that drops the timestamp header of the response
StorePut_Unstamped(st, url, ts, by) ==
  Append(StoreDelete(st, url), [url |-> url, ts |-> HdrMissing, by |-> by])
\* a put that resolves without having written
StorePut_Dropped(st, url, ts, by) == st
\* cache.put(key, response): an entry under the same key is replaced
StorePut(st, url, ts, by) ==
  Append(StoreDelete(st, url), [url |-> url, ts |-> ts, by |-> by])
\* cache.keys()
StoreKeys(st) == [i \in 1..Len(st) |-> st[i].url]

-----------------------------------------------------------------------------
(* State of one intercepted request *)

NoOut == [kind |-> "none", ok |-> FALSE, ts |-> HdrMissing, by |-> 0]
\* the Response fetch() resolved with, as the caller sees it
NetOut(r, ok) == [kind |-> "network", ok |-> ok, ts |-> HdrMissing, by |-> r]
\* the stored Response cache.match resolved with
CacheOut(e) == [kind |-> "cache", ok |-> TRUE, ts |-> e.ts, by |-> e.by]
ErrOut(r) == [kind |-> "error", ok |-> FALSE, ts |-> HdrMissing, by |-> r]
TimeoutOut(r) == [kind |-> "timeout", ok |-> FALSE, ts |-> HdrMissing, by |-> r]

IdleReq ==
  [pc |-> "idle", d |-> NoRequest, settings |-> NoSettings, key |-> NoKey,
   fetches |-> 0, storeOps |-> 0, dedup |-> FALSE, out |-> NoOut,
   matched |-> NoEntry, matchNow |-> 0, stamp |-> 0, net |-> NoOut, waitOn |-> 0,
   pol1 |-> NoPolicy, peerFetching |-> FALSE, concurrent |-> {},
   toFired |-> "none", toPeerAlive |-> FALSE,
   \* the socket whose first message settles this request's connect(); 0 for none
   sock |-> 0]

NoDeferred == [state |-> "none", val |-> NoOut]

\* a policy as the server sends it: the configuration and the order in which
\* the text lists its keys
NoPayload == [config |-> NoPolicy, keyOrder |-> 0]

\* CacheConfigSyncClient and FallbackPollingManager after construction
InitSync ==
  [sockets |-> <<>>,               \* every WebSocket created so far: its state
   socket |-> 0,                   \* #socket: index in sockets, 0 for null
   isConnected |-> FALSE,          \* #isConnected
   reconnectBackoffMs |-> 1000,    \* reconnectBackoffMs
   reconnectDue |-> -1,            \* deadline of the pending reconnect timeout
   currentCacheConfig |-> NoPayload, \* #currentCacheConfig
   intervalDue |-> -1,             \* FallbackPollingManager #intervalId: next tick
   polls |-> 0,                    \* poll() calls awaiting the HTTP response
   tasks |-> <<>>,                 \* onDisconnect / onReset chains under way
   nPolls |-> 0,                   \* polls started so far
   nMsgs |-> 0,                    \* policies obtained from the server so far
   lastObtained |-> NoPayload,     \* the policy obtained last
   env |-> "valid"]                \* index.js env, as the install event left it

\* no durable record
NoRecord == [config |-> NoPolicy, savedAt |-> -1]

\* CacheConfigStore's timer and the durable record in a new browser profile
InitPersist ==
  [record |-> NoRecord,            \* what the object store holds under 'latest'
   timers |-> {},                  \* deadlines of the cleanup timeouts that are set
   cleanupTimeoutId |-> -1,        \* #cleanupTimeoutId: a deadline, -1 for null
   calls |-> <<>>,                 \* set / cleanup / load calls awaiting IndexedDB
   started |-> [set |-> 0, reset |-> 0],  \* set(p) and set(null) calls made
   fired |-> [set |-> 0, reset |-> 0],    \* onSet and onReset calls made by set
   threw |-> 0,                    \* calls that ended by rejecting
   loads |-> 0,                    \* loadFromCacheIfValid calls made
   restarts |-> 0]                 \* fresh installs of the service worker so far

\* debounce(warmUpCache, 500) after module evaluation
InitWarm ==
  [timerId |-> 0,                  \* debounce's timerId: the call that set it, 0 for null
   timers |-> {},                  \* the calls whose setTimeout is pending
   calls |-> <<>>,                 \* every call of the debounced function
   runs |-> <<>>]                  \* every invocation of warmUpCache

\* everything but the response store and the stream client
InitCore(running, pols) ==
  /\ now = 0
  /\ alive = running
  /\ \E f \in [running -> pols] :
       current = [i \in Insts |-> IF i \in running THEN f[i] ELSE NoPolicy]
  /\ req = [r \in ReqIds |-> IdleReq]
  /\ inFlight = [i \in Insts |-> EmptyMap]
  /\ deferred = [r \in ReqIds |-> NoDeferred]
  /\ heartbeats = [i \in Insts |-> EmptyMap]
  /\ intervals = [i \in Insts |-> EmptyMap]
  /\ timeouts = [r \in ReqIds |-> -1]
  /\ chan = [i \in Insts |-> <<>>]
  /\ sweep = <<>>
  /\ sets = 0
  /\ peerSeen = [i \in Insts |-> EmptyMap]
  /\ persist = InitPersist
  /\ warm = InitWarm

\* everything but the response store
InitButStore(running, pols) ==
  /\ InitCore(running, pols)
  /\ sync = InitSync

InitWith(running, pols) ==
  /\ InitButStore(running, pols)
  /\ store = <<>>

-----------------------------------------------------------------------------
(* Heartbeat manager (task-heartbeat-manager.js) *)

\* channel.postMessage(msg): every other open channel of that name gets it
Post(ch, from, msgs) ==
  [j \in Insts |-> IF j # from /\ j \in alive THEN ch[j] \o msgs ELSE ch[j]]

\* startHeartbeat(key): heartbeats and intervals after the call
startHeartbeat_hb(i, key) ==
  IF key \in DOMAIN intervals[i] THEN heartbeats[i]
  ELSE MapSet(heartbeats[i], key, [timestamp |-> now, ownerId |-> i])

startHeartbeat_iv(i, key) ==
  IF key \in DOMAIN intervals[i] THEN intervals[i]
  ELSE MapSet(intervals[i], key, now + heartbeatIntervalMs)

\* endHeartbeat(key): the interval goes and task-end is broadcast, if one ran
endHeartbeat_iv(iv, key) == MapDelete(iv, key)

endHeartbeat_msgs(iv, key) ==
  IF key \in DOMAIN iv THEN << [type |-> "task-end", key |-> key] >> ELSE <<>>

isOwnerAlive(i, key) ==
  /\ key \in DOMAIN heartbeats[i]
  /\ now - heartbeats[i][key].timestamp < heartbeatIntervalMs * 2

\* (not from the source) a peer's heartbeat for the key arrived less than
\* 2 * heartbeatIntervalMs ago
PeerHeartbeatRecent(i, key) ==
  /\ key \in DOMAIN peerSeen[i]
  /\ now - peerSeen[i][key] < heartbeatIntervalMs * 2

-----------------------------------------------------------------------------
(* Request pipeline (index.js connectAndFetch, utils.js getResponse,       *)
(* fetchAndStoreInCache) and the deduplication layer (getDedupedResponse)  *)

InProgress(q) == req[q].pc \notin {"idle", "done"}

\* the 'fetch' event: connectAndFetch(event.request) runs up to await connect()
Intercept(r, d) ==
  /\ req[r].pc = "idle"
  /\ ReqInst[r] \in alive
  \* the requests of one instance are numbered in the order they arrive
  /\ \A q \in ReqIds : (q < r /\ ReqInst[q] = ReqInst[r]) => req[q].pc # "idle"
  /\ req' = [req EXCEPT ![r] =
               [@ EXCEPT !.pc = "connect", !.d = d,
                         !.concurrent = {q \in ReqIds \ {r} :
                                           ReqInst[q] = ReqInst[r] /\ InProgress(q)}]]
  /\ UNCHANGED <<sync, persist>>
  /\ UNCHANGED <<warm, now, current, store, inFlight, deferred, heartbeats, intervals,
                 timeouts, chan, sweep, sets, alive, peerSeen>>

\* connect() has resolved: resolveRequestSettings(request, env.ignoreOrigins);
\* with settings, caches.open is awaited; without, fetch(request) is issued
Resolve(r) ==
  /\ req[r].pc = "connect"
  /\ req[r].sock = 0
  /\ LET i == ReqInst[r]
         cfg == resolveRequestSettings(current[i], req[r].d, ignoreOrigins)
     IN req' = [req EXCEPT ![r] =
                  IF IsSettings(cfg)
                    THEN [@ EXCEPT !.pc = "open", !.pol1 = current[i]]
                    ELSE [@ EXCEPT !.pc = "bypass", !.pol1 = current[i],
                                   !.fetches = @ + 1]]
  /\ UNCHANGED <<sync, persist>>
  /\ UNCHANGED <<warm, now, current, store, inFlight, deferred, heartbeats, intervals,
                 timeouts, chan, sweep, sets, alive, peerSeen>>

\* caches.open has resolved: getResponse resolves the settings again (no
\* blackList) and starts buildCacheKeyRequest, or issues fetch(request)
GetResponse(r) ==
  /\ req[r].pc = "open"
  /\ LET i == ReqInst[r]
         cfg == resolveRequestSettings(current[i], req[r].d, {})
     IN req' = [req EXCEPT ![r] =
                  IF IsSettings(cfg)
                    THEN [@ EXCEPT !.pc = "key", !.settings = cfg]
                    ELSE [@ EXCEPT !.pc = "bypass", !.fetches = @ + 1]]
  /\ UNCHANGED <<sync, persist>>
  /\ UNCHANGED <<warm, now, current, store, inFlight, deferred, heartbeats, intervals,
                 timeouts, chan, sweep, sets, alive, peerSeen>>

\* buildCacheKeyRequest has resolved: cache.match(requestCacheKey) is issued
KeyBuilt(r) ==
  /\ req[r].pc = "key"
  /\ req' = [req EXCEPT ![r] =
               [@ EXCEPT !.pc = "match",
                         !.key = UrlOf(buildCacheKeyRequest(req[r].d,
                                                            req[r].settings.keyHeaders))]]
  /\ UNCHANGED <<sync, persist>>
  /\ UNCHANGED <<warm, now, current, store, inFlight, deferred, heartbeats, intervals,
                 timeouts, chan, sweep, sets, alive, peerSeen>>

\* a comparison that is strict where the source's is not
IsServable_Strict(h, currentTimestamp) ==
  LET cachedTimestamp == ToNumber(h)
  IN ~cachedTimestamp.nan /\ cachedTimestamp.v < currentTimestamp

\* cachedTimestamp <= currentTimestamp, with cachedTimestamp = +headers.get(...)
IsServable(h, currentTimestamp) ==
  LET cachedTimestamp == ToNumber(h)
  IN ~cachedTimestamp.nan /\ cachedTimestamp.v <= currentTimestamp

\* getDedupedResponse(key, fetcher) up to its first await; rec is the request's
\* record as the caller leaves it.  fetcher() issues fetch(request) at once.
getDedupedResponse(r, rec) ==
  LET i == ReqInst[r]
      key == rec.key
      peerF == \E q \in ReqIds :
                 ReqInst[q] # i /\ req[q].pc = "fetching" /\ req[q].key = key
  IN IF key \in DOMAIN inFlight[i]
       THEN /\ req' = [req EXCEPT ![r] =
                         [rec EXCEPT !.pc = "await", !.dedup = TRUE,
                                     !.waitOn = inFlight[i][key],
                                     !.peerFetching = peerF]]
            /\ UNCHANGED <<inFlight, deferred, heartbeats, intervals, timeouts>>
       ELSE /\ inFlight' = [inFlight EXCEPT ![i] = MapSet(@, key, r)]
            /\ deferred' = [deferred EXCEPT ![r] = [state |-> "pending", val |-> NoOut]]
            /\ heartbeats' = [heartbeats EXCEPT ![i] = startHeartbeat_hb(i, key)]
            /\ intervals' = [intervals EXCEPT ![i] = startHeartbeat_iv(i, key)]
            /\ timeouts' = [timeouts EXCEPT ![r] = now + timeoutMs]
            /\ req' = [req EXCEPT ![r] =
                         [rec EXCEPT !.pc = "fetching", !.dedup = TRUE,
                                     !.fetches = @ + 1, !.peerFetching = peerF]]

\* cache.match has resolved
MatchDone(r) ==
  /\ req[r].pc = "match"
  /\ LET e == StoreMatch(store, req[r].key)
         rec == [req[r] EXCEPT !.storeOps = @ + 1, !.matched = e, !.matchNow = now]
     IN IF IsEntry(e)
          THEN /\ req' = [req EXCEPT ![r] =
                            IF IsServable(e.ts, now)
                              THEN [rec EXCEPT !.pc = "done", !.out = CacheOut(e)]
                              ELSE [rec EXCEPT !.pc = "delete"]]
               /\ UNCHANGED <<inFlight, deferred, heartbeats, intervals, timeouts>>
          ELSE getDedupedResponse(r, rec)
  /\ UNCHANGED <<sync, persist>>
  /\ UNCHANGED <<warm, now, current, store, chan, sweep, sets, alive, peerSeen>>

\* cache.delete of the expired entry has resolved
DeleteDone(r) ==
  /\ req[r].pc = "delete"
  /\ store' = StoreDelete(store, req[r].key)
  /\ getDedupedResponse(r, [req[r] EXCEPT !.storeOps = @ + 1])
  /\ UNCHANGED <<sync, persist>>
  /\ UNCHANGED <<warm, now, current, chan, sweep, sets, alive, peerSeen>>

\* the finally block of getDedupedResponse, in the instance of call r
DedupFinally(r) ==
  LET i == ReqInst[r]
      key == req[r].key
  IN /\ inFlight' = [inFlight EXCEPT ![i] = MapDelete(@, key)]
     /\ intervals' = [intervals EXCEPT ![i] = endHeartbeat_iv(@, key)]
     /\ timeouts' = [timeouts EXCEPT ![r] = -1]

\* fetch(request) has settled
FetchDone(r, o) ==
  /\ req[r].pc \in {"bypass", "fetching"}
  /\ IF req[r].pc = "bypass"
       THEN /\ req' = [req EXCEPT ![r] =
                         [@ EXCEPT !.pc = "done",
                                   !.out = IF o = "error" THEN ErrOut(r)
                                           ELSE NetOut(r, o = "ok")]]
            /\ UNCHANGED <<inFlight, intervals, timeouts, chan>>
       ELSE CASE o = "error" ->
                   \* fetcher() rejects: catch logs and rethrows, finally releases
                   /\ req' = [req EXCEPT ![r] = [@ EXCEPT !.pc = "done", !.out = ErrOut(r)]]
                   /\ DedupFinally(r)
                   /\ chan' = Post(chan, ReqInst[r],
                                   endHeartbeat_msgs(intervals[ReqInst[r]], req[r].key))
              [] o = "notok" ->
                   \* not cached; serializeResponse is awaited
                   /\ req' = [req EXCEPT ![r] =
                                [@ EXCEPT !.pc = "serialize", !.net = NetOut(r, FALSE)]]
                   /\ UNCHANGED <<inFlight, intervals, timeouts, chan>>
              [] OTHER ->
                   \* stamped with Date.now(); cache.put is awaited
                   /\ req' = [req EXCEPT ![r] =
                                [@ EXCEPT !.pc = "put", !.net = NetOut(r, TRUE),
                                          !.stamp = now]]
                   /\ UNCHANGED <<inFlight, intervals, timeouts, chan>>
  /\ UNCHANGED <<sync, persist>>
  /\ UNCHANGED <<warm, now, current, store, deferred, heartbeats, sweep, sets, alive, peerSeen>>

\* cache.put has resolved
PutDone(r) ==
  /\ req[r].pc = "put"
  /\ store' = StorePut(store, req[r].key, HdrNum(req[r].stamp), r)
  /\ req' = [req EXCEPT ![r] = [@ EXCEPT !.pc = "serialize", !.storeOps = @ + 1]]
  /\ sweep' = [s \in DOMAIN sweep |->
                 IF sweep[s].pc # "done" THEN [sweep[s] EXCEPT !.dirty = TRUE]
                 ELSE sweep[s]]
  /\ UNCHANGED <<sync, persist>>
  /\ UNCHANGED <<warm, now, current, inFlight, deferred, heartbeats, intervals, timeouts,
                 chan, sets, alive, peerSeen>>

\* serializeResponse has resolved: response-ready is broadcast, the Deferred
\* is resolved with the live response, the finally block releases
SerializeDone(r) ==
  /\ req[r].pc = "serialize"
  /\ LET i == ReqInst[r]
         key == req[r].key
     IN /\ chan' = Post(chan, i,
                        << [type |-> "response-ready", key |-> key, by |-> r,
                            ok |-> req[r].net.ok] >>
                        \o endHeartbeat_msgs(intervals[i], key))
        /\ deferred' = [deferred EXCEPT ![r] =
                          IF @.state = "pending"
                            THEN [state |-> "resolved", val |-> req[r].net]
                            ELSE @]
        /\ DedupFinally(r)
        /\ req' = [req EXCEPT ![r] = [@ EXCEPT !.pc = "done", !.out = req[r].net]]
  /\ UNCHANGED <<sync, persist>>
  /\ UNCHANGED <<warm, now, current, store, heartbeats, sweep, sets, alive, peerSeen>>

\* the promise of the in-flight call this request waits on has settled
AwaitDone(r) ==
  /\ req[r].pc = "await"
  /\ deferred[req[r].waitOn].state \in {"resolved", "rejected"}
  /\ req' = [req EXCEPT ![r] =
               [@ EXCEPT !.pc = "done", !.out = deferred[req[r].waitOn].val]]
  /\ UNCHANGED <<sync, persist>>
  /\ UNCHANGED <<warm, now, current, store, inFlight, deferred, heartbeats, intervals,
                 timeouts, chan, sweep, sets, alive, peerSeen>>

-----------------------------------------------------------------------------
(* Timers and the broadcast bus *)

\* the setInterval callback of startHeartbeat(key) in instance i
HeartbeatTick(i, key) ==
  /\ key \in DOMAIN intervals[i]
  /\ intervals[i][key] <= now
  /\ chan' = Post(chan, i, << [type |-> "task-heartbeat", key |-> key,
                               ownerId |-> i, timestamp |-> now] >>)
  /\ heartbeats' = [heartbeats EXCEPT ![i] =
                      MapSet(@, key, [timestamp |-> now, ownerId |-> i])]
  /\ intervals' = [intervals EXCEPT ![i] = MapSet(@, key, @[key] + heartbeatIntervalMs)]
  /\ UNCHANGED <<sync, persist>>
  /\ UNCHANGED <<warm, now, current, store, req, inFlight, deferred, timeouts, sweep, sets,
                 alive, peerSeen>>

\* the setTimeout callback of the getDedupedResponse call of request r
TimeoutFire(r) ==
  /\ timeouts[r] >= 0
  /\ timeouts[r] <= now
  /\ LET i == ReqInst[r]
         key == req[r].key
         ownerAlive == isOwnerAlive(i, key)
     IN /\ timeouts' = [timeouts EXCEPT ![r] = -1]
        /\ req' = [req EXCEPT ![r] =
                     [@ EXCEPT !.toFired = IF ownerAlive THEN "continued" ELSE "rejected",
                               !.toPeerAlive = PeerHeartbeatRecent(i, key)]]
        /\ IF ownerAlive
             THEN UNCHANGED <<inFlight, intervals, chan, deferred>>
             ELSE /\ inFlight' = [inFlight EXCEPT ![i] = MapDelete(@, key)]
                  /\ intervals' = [intervals EXCEPT ![i] = endHeartbeat_iv(@, key)]
                  /\ chan' = Post(chan, i, endHeartbeat_msgs(intervals[i], key))
                  /\ deferred' = [deferred EXCEPT ![r] =
                                    IF @.state = "pending"
                                      THEN [state |-> "rejected", val |-> TimeoutOut(r)]
                                      ELSE @]
  /\ UNCHANGED <<sync, persist>>
  /\ UNCHANGED <<warm, now, current, store, heartbeats, sweep, sets, alive, peerSeen>>

\* a bus message reaches instance j: the heartbeat manager's listener, then
\* the deduplication layer's listener (resolveFromOtherTab)
Deliver(j) ==
  /\ chan[j] # <<>>
  /\ LET m == Head(chan[j])
     IN /\ chan' = [chan EXCEPT ![j] = Tail(@)]
        /\ heartbeats' = [heartbeats EXCEPT ![j] =
             CASE m.type = "task-heartbeat" ->
                    MapSet(@, m.key, [timestamp |-> m.timestamp, ownerId |-> m.ownerId])
               [] m.type = "task-end" -> MapDelete(@, m.key)
               [] OTHER -> @]
        /\ peerSeen' = [peerSeen EXCEPT ![j] =
             IF m.type = "task-heartbeat" THEN MapSet(@, m.key, now) ELSE @]
        /\ IF m.type = "response-ready" /\ m.key \in DOMAIN inFlight[j]
             THEN /\ deferred' = [deferred EXCEPT ![inFlight[j][m.key]] =
                                    IF @.state = "pending"
                                      THEN [state |-> "resolved",
                                            val |-> [kind |-> "peer", ok |-> m.ok,
                                                     ts |-> HdrMissing, by |-> m.by]]
                                      ELSE @]
                  /\ inFlight' = [inFlight EXCEPT ![j] = MapDelete(@, m.key)]
             ELSE UNCHANGED <<deferred, inFlight>>
  /\ UNCHANGED <<sync, persist>>
  /\ UNCHANGED <<warm, now, current, store, req, intervals, timeouts, sweep, sets, alive>>

TimerDue ==
  \/ \E i \in Insts : \E key \in DOMAIN intervals[i] : intervals[i][key] <= now
  \/ \E r \in ReqIds : timeouts[r] >= 0 /\ timeouts[r] <= now

\* The clock moves by one heartbeat interval.  A timer that is due runs
\* first, and a bus message is delivered within the tick it was posted in.
\* With networkOnly, only the network and a wait on a Deferred outlast a
\* tick: store and body reads finish within the tick they started in, and
\* the clock stands still while no request is under way.
AdvanceTime(maxTicks, networkOnly) ==
  /\ now < maxTicks * heartbeatIntervalMs
  /\ ~TimerDue
  /\ \A i \in Insts : chan[i] = <<>>
  /\ networkOnly =>
        /\ \E q \in ReqIds : InProgress(q)
        /\ \A q \in ReqIds : req[q].pc \in {"idle", "bypass", "fetching", "await", "done"}
  /\ now' = now + heartbeatIntervalMs
  /\ UNCHANGED <<sync, persist>>
  /\ UNCHANGED <<warm, current, store, req, inFlight, deferred, heartbeats, intervals,
                 timeouts, chan, sweep, sets, alive, peerSeen>>

-----------------------------------------------------------------------------
(* Policy change and the stale sweep (cache-config-store.js set,           *)
(* index.js onSet, api-cache-manager.js deleteStaleEntries)                *)

\* the cache key is a GET request
KeyRequestOf(url) ==
  [origin |-> url.origin, pathname |-> url.pathname, search |-> url.search,
   method |-> "GET", headers |-> <<>>, body |-> ""]

\* isNaN(ts) -> delete; ts < endpointConfig.lastModified -> delete; else keep
\* (a comparison with undefined is false)
SweepDeletes(h, endpointConfig) ==
  LET responseTimestamp == ToNumber(h)
  IN \/ responseTimestamp.nan
     \/ /\ Has(endpointConfig, "lastModified")
        /\ responseTimestamp.v < endpointConfig.lastModified

\* store.set(policy) for a policy without cacheTTL: #current is replaced and
\* onSet starts deleteStaleEntries, which awaits caches.open and cache.keys
StoreSet(i, p) ==
  /\ i \in alive
  /\ sets < MaxPolicySets
  /\ sets' = sets + 1
  /\ current' = [current EXCEPT ![i] = p]
  /\ sweep' = Append(sweep, [inst |-> i, pc |-> "open", list |-> <<>>, idx |-> 0,
                             dirty |-> FALSE, doneAt |-> 0])
  /\ UNCHANGED <<sync, persist>>
  /\ UNCHANGED <<warm, now, store, req, inFlight, deferred, heartbeats, intervals,
                 timeouts, chan, alive, peerSeen>>

\* the for loop of deleteStaleEntries moves to list[idx], or the sweep ends
SweepGoto(rec, idx) ==
  IF idx > Len(rec.list)
    THEN [rec EXCEPT !.pc = "done", !.idx = idx, !.doneAt = now]
    ELSE [rec EXCEPT !.pc = "loop", !.idx = idx]

\* cache.keys() has resolved
SweepOpen(s) ==
  /\ s \in DOMAIN sweep
  /\ sweep[s].pc = "open"
  /\ sweep' = [sweep EXCEPT ![s] = SweepGoto([@ EXCEPT !.list = StoreKeys(store)], 1)]
  /\ UNCHANGED <<sync, persist>>
  /\ UNCHANGED <<warm, now, current, store, req, inFlight, deferred, heartbeats, intervals,
                 timeouts, chan, sets, alive, peerSeen>>

\* cache.match(request) has resolved for the entry the loop is at
SweepMatchDone(s) ==
  /\ s \in DOMAIN sweep
  /\ sweep[s].pc = "loop"
  /\ LET rec == sweep[s]
         url == rec.list[rec.idx]
         response == StoreMatch(store, url)
         originalRequest == revertCacheKeyRequest(KeyRequestOf(url))
         endpointConfig == resolveRequestSettings(current[rec.inst], originalRequest, {})
     IN sweep' = [sweep EXCEPT ![s] =
                    IF ~IsEntry(response) THEN SweepGoto(rec, rec.idx + 1)
                    ELSE IF ~IsSettings(endpointConfig) THEN SweepGoto(rec, rec.idx + 1)
                    ELSE IF SweepDeletes(response.ts, endpointConfig)
                           THEN [rec EXCEPT !.pc = "delete"]
                           ELSE SweepGoto(rec, rec.idx + 1)]
  /\ UNCHANGED <<sync, persist>>
  /\ UNCHANGED <<warm, now, current, store, req, inFlight, deferred, heartbeats, intervals,
                 timeouts, chan, sets, alive, peerSeen>>

\* cache.delete(request) has resolved
SweepDeleteDone(s) ==
  /\ s \in DOMAIN sweep
  /\ sweep[s].pc = "delete"
  /\ store' = StoreDelete(store, sweep[s].list[sweep[s].idx])
  /\ sweep' = [sweep EXCEPT ![s] = SweepGoto(@, @.idx + 1)]
  /\ UNCHANGED <<sync, persist>>
  /\ UNCHANGED <<warm, now, current, req, inFlight, deferred, heartbeats, intervals,
                 timeouts, chan, sets, alive, peerSeen>>

-----------------------------------------------------------------------------
(* Specifications *)

\* One instance under a fixed policy (or none): requests of every kind
PipeReqs == {r \in ReqIds : ReqInst[r] = "A"}

InitPipe == InitWith({"A"}, InitPolicies \cup {NoPolicy})

NextPipe ==
  \/ \E r \in PipeReqs : \E d \in PipeInputs : Intercept(r, d)
  \/ \E r \in PipeReqs : Resolve(r)
  \/ \E r \in PipeReqs : GetResponse(r)
  \/ \E r \in PipeReqs : KeyBuilt(r)
  \/ \E r \in PipeReqs : MatchDone(r)
  \/ \E r \in PipeReqs : \E o \in NetOutcomes : FetchDone(r, o)
  \/ \E r \in PipeReqs : PutDone(r)
  \/ \E r \in PipeReqs : SerializeDone(r)
  \/ \E r \in PipeReqs : AwaitDone(r)
  \/ \E key \in DOMAIN intervals["A"] : HeartbeatTick("A", key)
  \/ AdvanceTime(PipeMaxTicks, FALSE)

Spec == InitPipe /\ [][NextPipe]_vars

\* One instance: cacheable requests, a policy change and its stale sweep
SweepInputs == {ReqUsersGet, ReqUsersPost}

InitSweep == InitWith({"A"}, InitPolicies)

NextSweep ==
  \/ \E r \in PipeReqs : \E d \in SweepInputs : Intercept(r, d)
  \/ \E r \in PipeReqs : Resolve(r)
  \/ \E r \in PipeReqs : GetResponse(r)
  \/ \E r \in PipeReqs : KeyBuilt(r)
  \/ \E r \in PipeReqs : MatchDone(r)
  \/ \E r \in PipeReqs : \E o \in NetOutcomes : FetchDone(r, o)
  \/ \E r \in PipeReqs : PutDone(r)
  \/ \E r \in PipeReqs : SerializeDone(r)
  \/ \E r \in PipeReqs : AwaitDone(r)
  \/ \E key \in DOMAIN intervals["A"] : HeartbeatTick("A", key)
  \/ \E p \in PoliciesAt(now) : StoreSet("A", p)
  \/ \E s \in DOMAIN sweep : SweepOpen(s)
  \/ \E s \in DOMAIN sweep : SweepMatchDone(s)
  \/ \E s \in DOMAIN sweep : SweepDeleteDone(s)
  \/ AdvanceTime(PipeMaxTicks, FALSE)

SpecSweep == InitSweep /\ [][NextSweep]_vars

\* Two instances under one policy, each intercepting the same request in the
\* first tick; the fetches may take any time; heartbeats, timeouts, the bus
InitDedup == InitWith(Insts, {PolLong})

\* one request in each instance
DedupReqs == {r \in ReqIds : r = 1 \/ ReqInst[r] = "B"}

NextDedup ==
  \/ \E r \in DedupReqs : \E d \in DedupInputs : now = 0 /\ Intercept(r, d)
  \/ \E r \in DedupReqs : Resolve(r)
  \/ \E r \in DedupReqs : GetResponse(r)
  \/ \E r \in DedupReqs : KeyBuilt(r)
  \/ \E r \in DedupReqs : MatchDone(r)
  \/ \E r \in DedupReqs : \E o \in NetOutcomes : FetchDone(r, o)
  \/ \E r \in DedupReqs : PutDone(r)
  \/ \E r \in DedupReqs : SerializeDone(r)
  \/ \E i \in Insts : \E key \in DOMAIN intervals[i] : HeartbeatTick(i, key)
  \/ \E r \in DedupReqs : TimeoutFire(r)
  \/ \E j \in Insts : Deliver(j)
  \/ AdvanceTime(DedupMaxTicks, TRUE)

SpecDedup == InitDedup /\ [][NextDedup]_vars

-----------------------------------------------------------------------------
(* Properties *)

\* The freshness rule the design states: with lastModified, fresh iff
\* T_stored >= lastModified; else with ttl, fresh iff T_stored + ttl > now;
\* with neither, or without a parsable timestamp, not fresh.
DesignFresh(h, settings, t) ==
  /\ h.kind = "num"
  /\ IF Has(settings, "lastModified") THEN h.v >= settings.lastModified
     ELSE IF Has(settings, "ttl") THEN h.v + settings.ttl > t
     ELSE FALSE

Resolved(r) == req[r].pc \notin {"idle", "connect"}

\* the policy the request was resolved under gives it no settings: no
\* policy, an ignored origin, or no host node for the origin
NoSettingsCase(r) ==
  \/ req[r].pol1 = NoPolicy
  \/ req[r].d.origin \in ignoreOrigins
  \/ ~Has(req[r].pol1, "hosts")
  \/ ~Has(req[r].pol1.hosts, req[r].d.origin)

\* C1: a request whose policy resolution yields no settings (no active policy,
\* ignored origin, no host node) issues exactly one network fetch, gets that
\* response (or that failure) back as it is, never enters the deduplication
\* layer and does no lookup, write or delete on the response store.
C1_BypassOneFetchNoStore ==
  \A r \in ReqIds :
    (Resolved(r) /\ NoSettingsCase(r)) =>
      /\ req[r].fetches = 1
      /\ req[r].storeOps = 0
      /\ ~req[r].dedup
      /\ req[r].key = NoKey
      /\ req[r].pc \in {"bypass", "done"}
      /\ req[r].pc = "done" => /\ req[r].out.kind \in {"network", "error"}
                                /\ req[r].out.by = r
                                /\ req[r].out.ts = HdrMissing

\* C1 witness: a request to an ignored origin that the active policy
\* otherwise matches has been answered from the network
C1_Witness ==
  \E r \in ReqIds :
    /\ req[r].pc = "done"
    /\ req[r].d.origin \in ignoreOrigins
    /\ req[r].pol1 # NoPolicy
    /\ Has(req[r].pol1.hosts, req[r].d.origin)
    /\ req[r].out.kind = "network"

\* C2 (as claimed): every response served from the response store under
\* settings that carry lastModified or ttl is fresh at the moment it is
\* served: T_stored >= lastModified, or else T_stored + ttl > now.
C2_ServedIsFresh ==
  \A r \in ReqIds :
    (/\ req[r].pc = "done"
     /\ req[r].out.kind = "cache"
     /\ (Has(req[r].settings, "lastModified") \/ Has(req[r].settings, "ttl"))) =>
      DesignFresh(req[r].out.ts, req[r].settings, req[r].matchNow)

C4_OneFetchPerInstance ==
  \A r1, r2 \in ReqIds :
    (/\ r1 \in req[r2].concurrent
     /\ req[r1].key # NoKey
     /\ req[r1].key = req[r2].key) =>
      req[r1].fetches + req[r2].fetches <= 1

\* C5 (as claimed): a request that reaches the deduplication layer while a
\* peer instance's fetch for the same key is in flight launches no fetch.
C5_PeerFetchPreferred ==
  \A r \in ReqIds : req[r].peerFetching => req[r].fetches = 0

\* C6 (as claimed): once the fetcher of the owning call has failed, the
\* pending completion its awaiters wait on is rejected: no awaiter is left
\* on a completion that is still pending.
C6_AwaitersRejected ==
  \A w \in ReqIds :
    (/\ req[w].pc = "await"
     /\ req[req[w].waitOn].pc = "done"
     /\ req[req[w].waitOn].out.kind = "error") =>
      deferred[req[w].waitOn].state = "rejected"

\* C7 (as claimed): when the dedup timeout fires, the pending completion is
\* failed exactly when no peer heartbeat for the key arrived in the last
\* 1000 ms.
C7_TimeoutFollowsPeerHeartbeat ==
  \A r \in ReqIds :
    req[r].toFired # "none" =>
      (req[r].toFired = "rejected" <=> ~req[r].toPeerAlive)

\* the request names a host, path and method the policy declares
Declared(pol, d) ==
  /\ Has(pol, "hosts") /\ Has(pol.hosts, d.origin)
  /\ Has(pol.hosts[d.origin], "endpoints")
  /\ Has(pol.hosts[d.origin].endpoints, getNormalizedPathname(d.pathname))
  /\ Has(pol.hosts[d.origin].endpoints[getNormalizedPathname(d.pathname)], "methods")
  /\ Has(pol.hosts[d.origin].endpoints[getNormalizedPathname(d.pathname)].methods,
         d.method)

\* C8 (as claimed): a request whose host, path or method the active policy
\* does not declare is bypassed, whatever root or host settings exist.
C8_UndeclaredIsBypassed ==
  \A r \in ReqIds :
    (Resolved(r) /\ req[r].pol1 # NoPolicy /\ ~Declared(req[r].pol1, req[r].d)) =>
      req[r].pc \in {"bypass", "done"} /\ req[r].storeOps = 0 /\ req[r].key = NoKey

\* C9 (as claimed): a request whose merged settings have neither ttl nor
\* lastModified never touches the response store.
C9_NoFreshnessRuleIsBypass ==
  \A r \in ReqIds :
    (/\ IsSettings(req[r].settings)
     /\ ~Has(req[r].settings, "ttl")
     /\ ~Has(req[r].settings, "lastModified")) =>
      req[r].storeOps = 0

\* the method of the request an entry was stored for: the __method parameter
OrigMethod(url) ==
  LET idx == {i \in 1..Len(url.search) :
                url.search[i][1] = <<keySearchParamPrefix, "method">>}
  IN url.search[CHOOSE i \in idx : TRUE][2]

\* stale under the design's rule, for the original request of the entry
DesignStale(e, pol, t) ==
  LET settings == resolveRequestSettings(
                    pol, [KeyRequestOf(e.url) EXCEPT !.method = OrigMethod(e.url)], {})
      ts == ToNumber(e.ts).v
  IN /\ IsSettings(settings)
     /\ IF Has(settings, "lastModified") THEN ts < settings.lastModified
        ELSE Has(settings, "ttl") /\ ts + settings.ttl <= t

\* C10 (as claimed): when a stale sweep ends and nothing was written while
\* it ran, no stored entry is stale under the active policy.
C10_SweepLeavesNoStale ==
  [][\A s \in DOMAIN sweep :
       (sweep[s].pc # "done" /\ sweep'[s].pc = "done" /\ ~sweep'[s].dirty) =>
         \A i \in 1..Len(store') :
           ~DesignStale(store'[i], current'[sweep[s].inst], now')]_vars

-----------------------------------------------------------------------------
(* Writing network responses to the store *)

\* the request went through fetchAndStoreInCache and its fetch has returned
OwnFetchReturned(r) ==
  /\ req[r].pc = "done"
  /\ req[r].dedup
  /\ req[r].fetches = 1
  /\ req[r].out.kind = "network"

-----------------------------------------------------------------------------
(* A store that already holds an entry the engine did not write: the bucket *)
(* is ordinary CacheStorage, open to the page and to earlier versions.     *)

\* the entry lies under the key of GET users; its timestamp header is
\* missing or is not a number
ForeignEntries(pol) ==
  LET cfg == resolveRequestSettings(pol, ReqUsersGet, {})
      url == UrlOf(buildCacheKeyRequest(ReqUsersGet, cfg.keyHeaders))
  IN {[url |-> url, ts |-> h, by |-> 0] : h \in {HdrMissing, HdrBad}}

InitCorrupt ==
  /\ InitButStore({"A"}, InitPolicies)
  /\ \E e \in ForeignEntries(current["A"]) : store = <<e>>

CorruptInputs == {ReqUsersGet}

NextCorrupt ==
  \/ \E r \in PipeReqs : \E d \in CorruptInputs : Intercept(r, d)
  \/ \E r \in PipeReqs : Resolve(r)
  \/ \E r \in PipeReqs : GetResponse(r)
  \/ \E r \in PipeReqs : KeyBuilt(r)
  \/ \E r \in PipeReqs : MatchDone(r)
  \/ \E r \in PipeReqs : DeleteDone(r)
  \/ \E r \in PipeReqs : \E o \in NetOutcomes : FetchDone(r, o)
  \/ \E r \in PipeReqs : PutDone(r)
  \/ \E r \in PipeReqs : SerializeDone(r)
  \/ \E r \in PipeReqs : AwaitDone(r)
  \/ \E key \in DOMAIN intervals["A"] : HeartbeatTick("A", key)
  \/ \E p \in PoliciesAt(now) : StoreSet("A", p)
  \/ \E s \in DOMAIN sweep : SweepOpen(s)
  \/ \E s \in DOMAIN sweep : SweepMatchDone(s)
  \/ \E s \in DOMAIN sweep : SweepDeleteDone(s)
  \/ AdvanceTime(PipeMaxTicks, FALSE)

SpecCorrupt == InitCorrupt /\ [][NextCorrupt]_vars

\* the policy covers the entry: the sweep's resolution yields settings
Covered(e, pol) ==
  IsSettings(resolveRequestSettings(pol, revertCacheKeyRequest(KeyRequestOf(e.url)), {}))

\* C12 (as claimed): an entry whose timestamp header is missing or is not a
\* number is never served, and none that the policy covers is left once a
\* stale sweep has ended with nothing written while it ran.
C12_CorruptNeverServedAndSwept ==
  /\ \A r \in ReqIds :
       (req[r].pc = "done" /\ req[r].out.kind = "cache") => req[r].out.ts.kind = "num"
  /\ \A s \in DOMAIN sweep :
       (sweep[s].pc = "done" /\ ~sweep[s].dirty) =>
         \A i \in 1..Len(store) :
           Covered(store[i], current[sweep[s].inst]) => store[i].ts.kind = "num"

-----------------------------------------------------------------------------
(* Ignored origins *)

\* C13: every step of a request whose origin is in ignoreOrigins leaves the
\* response store as it was, and the request is answered by its own single
\* network fetch, also when the policy declares its host, path and method.
C13_IgnoredOriginLeavesStore ==
  [][\A r \in ReqIds :
       (req'[r] # req[r] /\ req'[r].d.origin \in ignoreOrigins) =>
         /\ store' = store
         /\ req'[r].pc \in {"connect", "bypass", "done"}
         /\ req'[r].key = NoKey
         /\ req'[r].pc = "done" =>
              /\ req'[r].fetches = 1
              /\ req'[r].out \in {NetOut(r, TRUE), NetOut(r, FALSE), ErrOut(r)}]_vars

\* C13 witness: a request to an ignored origin that the active policy
\* declares was answered from the network while the store held an entry
C13_Witness ==
  \E r \in ReqIds :
    /\ req[r].pc = "done"
    /\ req[r].d.origin \in ignoreOrigins
    /\ Declared(req[r].pol1, req[r].d)
    /\ req[r].out = NetOut(r, TRUE)
    /\ store # <<>>
    /\ \A i \in 1..Len(store) : store[i].url.origin \notin ignoreOrigins

-----------------------------------------------------------------------------
(* Cache keys: requests to one endpoint that differ in query, headers, body *)

P(name, value) == << <<name>>, value >>

KeySearches ==
  { <<>>, <<P("a", "1")>>, <<P("a", "2")>>,
    <<P("a", "1"), P("b", "2")>>, <<P("b", "2"), P("a", "1")>>,
    <<P("a", "1"), P("a", "2")>>, <<P("a", "2"), P("a", "1")>>,
    <<P("Z", "1"), P("a", "1")>> }

\* header lists of requests without a body
KeyGetHeaders ==
  { <<>>, << <<"x-tenant", "t1">> >>, << <<"x-tenant", "t2">> >>,
    << <<"x-tenant", "none">> >>,
    << <<"x-tenant", "t1">>, <<"accept", "x">> >>,
    << <<"accept", "x">>, <<"x-tenant", "t1">> >> }

\* <<headers, body>> of requests with a body
KeyPostShapes ==
  { << <<>>, "" >>, << <<>>, "b" >>, << <<>>, "none" >>,
    << << <<"content-type", "application/json">> >>, "{a:1,b:2}" >>,
    << << <<"content-type", "application/json">> >>, "{b:2,a:1}" >>,
    << << <<"content-type", "application/json">> >>, "{a:2}" >>,
    << << <<"content-type", "application/x-www-form-urlencoded">> >>, "a=1&b=2" >>,
    << << <<"content-type", "application/x-www-form-urlencoded">> >>, "b=2&a=1" >> }

KeyInputs ==
  { [origin |-> Api, pathname |-> <<"/", "users">>, search |-> q, method |-> "GET",
     headers |-> h, body |-> ""] : q \in KeySearches, h \in KeyGetHeaders }
  \cup
  { [origin |-> Api, pathname |-> <<"/", "users", "/">>, search |-> q, method |-> "POST",
     headers |-> sh[1], body |-> sh[2]] : q \in {<<>>, <<P("a", "1")>>}, sh \in KeyPostShapes }

KeyReqs == {1, 2}

InitKey == InitWith({"A"}, InitPolicies)

\* two requests of one instance are taken up to the point where each has
\* its cache key
NextKey ==
  \/ \E r \in KeyReqs : \E d \in KeyInputs : Intercept(r, d)
  \/ \E r \in KeyReqs : Resolve(r)
  \/ \E r \in KeyReqs : GetResponse(r)
  \/ \E r \in KeyReqs : KeyBuilt(r)

SpecKey == InitKey /\ [][NextKey]_vars

HasKey(r) == req[r].key # NoKey

\* the elements of a list, with their multiplicities
BagOf(list) == [x \in {list[i] : i \in 1..Len(list)} |->
                  Cardinality({i \in 1..Len(list) : list[i] = x})]

IsJson(d) ==
  /\ HeaderGet(d.headers, "content-type") = "application/json"
  /\ d.body \in DOMAIN JsonBodies

\* the two requests differ at most in the order of their query parameters,
\* of their headers, and of the top-level keys of a JSON body
SameUpToOrder(d1, d2) ==
  /\ d1.origin = d2.origin /\ d1.pathname = d2.pathname /\ d1.method = d2.method
  /\ BagOf(d1.search) = BagOf(d2.search)
  /\ BagOf(d1.headers) = BagOf(d2.headers)
  /\ \/ d1.body = d2.body
     \/ IsJson(d1) /\ IsJson(d2)
          /\ BagOf(JsonBodies[d1.body]) = BagOf(JsonBodies[d2.body])

\* C14 (as claimed): two requests under the same settings that differ only
\* in the order of query parameters (repeated names included), of top-level
\* JSON body keys, or of headers, get the same cache key.
C14_KeyStableUnderReordering ==
  \A r1, r2 \in KeyReqs :
    (/\ HasKey(r1) /\ HasKey(r2)
     /\ req[r1].settings = req[r2].settings
     /\ SameUpToOrder(req[r1].d, req[r2].d)) =>
      req[r1].key = req[r2].key

\* the value of each key header, "" standing for an absent header
KeyHeaderValues(d, keyHeaders) ==
  [i \in 1..Len(keyHeaders) |-> HeaderGet(d.headers, keyHeaders[i])]

\* the two requests go to the same normalized URL and differ in method, in
\* canonical body or in the value of a key header
DifferInDiscriminant(d1, d2, keyHeaders) ==
  /\ d1.origin = d2.origin
  /\ getNormalizedPathname(d1.pathname) = getNormalizedPathname(d2.pathname)
  /\ d1.search = d2.search
  /\ \/ d1.method # d2.method
     \/ serializeRequestBodyForKey(d1) # serializeRequestBodyForKey(d2)
     \/ KeyHeaderValues(d1, keyHeaders) # KeyHeaderValues(d2, keyHeaders)

\* C15 (as claimed): two requests to the same normalized URL that differ in
\* method, canonical body or the value of a key header (present versus
\* absent included) get different cache keys.
C15_KeyInjective ==
  \A r1, r2 \in KeyReqs :
    (/\ HasKey(r1) /\ HasKey(r2)
     /\ req[r1].settings.keyHeaders = req[r2].settings.keyHeaders
     /\ DifferInDiscriminant(req[r1].d, req[r2].d, req[r1].settings.keyHeaders)) =>
      req[r1].key # req[r2].key

\* the URL of the original request with its path normalized
NormalizedUrl(d) ==
  [origin |-> d.origin, pathname |-> SetPathname(getNormalizedPathname(d.pathname)),
   search |-> d.search]

\* C16 (as claimed): reverting the cache key of a request gives a request
\* with no "__" query parameter, the path-normalized URL of the original and
\* the method of the original.
C16_RevertIsRoundTrip ==
  \A r \in KeyReqs :
    HasKey(r) =>
      LET reverted == revertCacheKeyRequest(KeyRequestOf(req[r].key))
      IN /\ \A i \in 1..Len(reverted.search) :
              Head(reverted.search[i][1]) # keySearchParamPrefix
         /\ UrlOf(reverted) = NormalizedUrl(req[r].d)
         /\ reverted.method = req[r].d.method

-----------------------------------------------------------------------------
(* Settings resolution over policies that set the same fields at several   *)
(* levels                                                                  *)

\* what one level of the tree may carry; the first stands for a level
\* without settings
LevelChoices ==
  { <<>>, [ttl |-> 1000], [ttl |-> 500, prefetch |-> "always"],
    [lastModified |-> 0, keyHeaders |-> <<"x-tenant">>] }

WithSettings(node, st) == IF st = <<>> THEN node ELSE node @@ [settings |-> st]

\* root, host and endpoint settings a, b, c; method entries m for GET and
\* PATCH of the endpoint "users"
PolLevels(a, b, c, m) ==
  WithSettings(
    [hosts |->
       (Api :> WithSettings(
                 [endpoints |->
                    (<<"users">> :> WithSettings(
                                      [methods |-> ("GET" :> m @@ "PATCH" :> m)], c))],
                 b))],
    a)

ResolvePolicies ==
  {PolLevels(a, b, c, m) : a \in LevelChoices, b \in LevelChoices,
                           c \in LevelChoices, m \in LevelChoices}

\* a custom method keeps the case the caller wrote it in
ReqUsersPatch == MkRequest(Api, <<"/", "users", "/">>, "patch", "b")

ResolveInputs == {ReqUsersGet, ReqUsersPatch}

InitResolve == InitWith({"A"}, ResolvePolicies)

NextResolve ==
  \/ \E d \in ResolveInputs : Intercept(1, d)
  \/ Resolve(1)
  \/ GetResponse(1)

SpecResolve == InitResolve /\ [][NextResolve]_vars

\* the settings objects on the path of the request, root first
LevelsOnPath(pol, d) ==
  LET host == pol.hosts[d.origin]
      endpoint == host.endpoints[getNormalizedPathname(d.pathname)]
  IN << Prop(pol, "settings"), Prop(host, "settings"), Prop(endpoint, "settings"),
        endpoint.methods[toUpperCase(d.method)] >>

\* the value the deepest level that defines the field gives it
DeepestValue(levels, field, default) ==
  LET ds == {i \in 1..Len(levels) : field \in DOMAIN levels[i]}
  IN IF ds = {} THEN default
     ELSE levels[CHOOSE i \in ds : \A j \in ds : j <= i][field]

SettingsFields == {"ttl", "lastModified", "keyHeaders", "prefetch"}

\* C17: for a request whose origin, path and upper-cased method the policy
\* declares, every field of the resolved settings has the value of the
\* deepest level that defines it; keyHeaders defaults to the empty list and
\* prefetch to 'never'; a field no level defines is absent.
C17_DeepestLevelWins ==
  \A r \in ReqIds :
    req[r].pc = "key" =>
      LET levels == LevelsOnPath(current[ReqInst[r]], req[r].d)
          st == req[r].settings
      IN /\ IsSettings(st)
         /\ st.keyHeaders = DeepestValue(levels, "keyHeaders", <<>>)
         /\ st.prefetch = DeepestValue(levels, "prefetch", "never")
         /\ \A f \in {"ttl", "lastModified"} :
              IF \E i \in 1..4 : f \in DOMAIN levels[i]
                THEN Has(st, f) /\ st[f] = DeepestValue(levels, f, 0)
                ELSE ~Has(st, f)
         /\ DOMAIN st \subseteq SettingsFields

\* C17 witness: a lower-case custom method resolved; root and method level
\* both set ttl, to different values, and the method's value came out; no
\* level set keyHeaders
C17_Witness ==
  \E r \in ReqIds :
    /\ req[r].pc = "key"
    /\ req[r].d.method = "patch"
    /\ LET levels == LevelsOnPath(current[ReqInst[r]], req[r].d)
       IN /\ "ttl" \in DOMAIN levels[1] /\ "ttl" \in DOMAIN levels[4]
          /\ levels[1].ttl # levels[4].ttl
          /\ req[r].settings.ttl = levels[4].ttl
          /\ req[r].settings.keyHeaders = <<>>

-----------------------------------------------------------------------------
(* The policy stream client (CacheConfigSyncClient), the fallback polling  *)
(* manager and index.js's wiring of both to the policy store, in instance  *)
(* A.  The policies of these specifications carry no cacheTTL and declare  *)
(* no prefetch mode, so nothing is persisted and a warm-up finds nothing   *)
(* to fetch.                                                               *)

\* sockets ever created
MaxSockets == 2
\* policies obtained from the server (stream messages and poll results)
MaxObtained == 2
\* fallback polls started
MaxPolls == 1
\* the clock stops here
SyncMaxTime == 2000

\* env.fallbackPollingIntervalMs (README: 1000); 0 when polling is not configured
fallbackPollingIntervalMs == 1000

\* the pause before the first reconnect attempt, and the longest pause
initialBackoffMs == 1000
maxBackoffMs == 30000

\* what the server sends: keyOrder tells in which order the JSON text lists
\* the keys of the same policy
SyncPayloads ==
  { [config |-> PolLong, keyOrder |-> 1], [config |-> PolLong, keyOrder |-> 2],
    [config |-> PolLm(0, 0), keyOrder |-> 1] }

\* JSON.stringify: the text lists the keys in the order of the object
JsonStringify(payload) == <<payload.keyOrder, payload.config>>

\* a doubling without the cap
Min_Uncapped(a, b) == a

Min(a, b) == IF a < b THEN a ELSE b

\* store.set(policy) for a policy without cacheTTL, and the start of onSet:
\* deleteStaleEntries awaits caches.open and cache.keys
storeSet_current(p) == [current EXCEPT !["A"] = p]
storeSet_sweep ==
  Append(sweep, [inst |-> "A", pc |-> "open", list |-> <<>>, idx |-> 0,
                 dirty |-> FALSE, doneAt |-> 0])

\* #triggerReceiveNewCacheConfigIfHasChanges(newCacheConfig), with
\* onReceiveNewCacheConfig = cacheConfigStore.set; sy is the client's state
\* as the caller leaves it
triggerReceive(sy, payload) ==
  LET hasChange == JsonStringify(payload) # JsonStringify(sy.currentCacheConfig)
      seen == [sy EXCEPT !.nMsgs = @ + 1, !.lastObtained = payload]
  IN IF hasChange
       THEN /\ sync' = [seen EXCEPT !.currentCacheConfig = payload]
            /\ current' = storeSet_current(payload.config)
            /\ sweep' = storeSet_sweep
       ELSE /\ sync' = seen
            /\ UNCHANGED <<current, sweep>>

\* CacheConfigSyncClient.connect(): nothing new while #socket is OPEN;
\* otherwise a new WebSocket replaces #socket
syncConnect(sy) ==
  IF sy.socket # 0 /\ sy.sockets[sy.socket] = "open" THEN sy
  ELSE [sy EXCEPT !.sockets = Append(@, "connecting"), !.socket = Len(sy.sockets) + 1]

\* connect() called by install, activate or an intercepted request
ConnectCallUpTo(n) ==
  /\ Len(sync.sockets) < n
  /\ sync' = syncConnect(sync)
  /\ UNCHANGED <<warm, now, current, store, req, inFlight, deferred, heartbeats, intervals,
                 timeouts, chan, sweep, sets, alive, peerSeen, persist>>

ConnectCall == ConnectCallUpTo(MaxSockets)

\* the reconnect timeout set by #handleClose fires
ReconnectFireUpTo(n) ==
  /\ sync.reconnectDue >= 0
  /\ sync.reconnectDue <= now
  /\ Len(sync.sockets) < n
  /\ sync' = syncConnect([sync EXCEPT !.reconnectDue = -1])
  /\ UNCHANGED <<warm, now, current, store, req, inFlight, deferred, heartbeats, intervals,
                 timeouts, chan, sweep, sets, alive, peerSeen, persist>>

ReconnectFire == ReconnectFireUpTo(MaxSockets)

\* the 'open' event of socket k: #handleOpen, onConnect stops the polling
SocketOpen(k) ==
  /\ sync.sockets[k] = "connecting"
  /\ sync' = [sync EXCEPT !.sockets[k] = "open", !.isConnected = TRUE,
                           !.reconnectBackoffMs = initialBackoffMs,
                           !.intervalDue = -1]
  /\ UNCHANGED <<warm, now, current, store, req, inFlight, deferred, heartbeats, intervals,
                 timeouts, chan, sweep, sets, alive, peerSeen, persist>>

\* the 'error' event of socket k: #handleError closes #socket; the socket
\* that failed is closed by the browser
SocketError(k) ==
  /\ sync.sockets[k] \in {"connecting", "open"}
  /\ sync' = [sync EXCEPT !.sockets =
                 [j \in 1..Len(sync.sockets) |->
                    IF (j = k \/ j = sync.socket) /\ sync.sockets[j] \in {"connecting", "open"}
                      THEN "closing" ELSE sync.sockets[j]]]
  /\ UNCHANGED <<warm, now, current, store, req, inFlight, deferred, heartbeats, intervals,
                 timeouts, chan, sweep, sets, alive, peerSeen, persist>>

\* the 'close' event of socket k: #handleClose.  onDisconnect starts
\* store.reset(), which empties #current and awaits the durable delete; the
\* reconnect timeout is set anew and the backoff doubles
SocketClose(k) ==
  /\ sync.sockets[k] \in {"connecting", "open", "closing"}
  /\ sync' = [sync EXCEPT !.sockets[k] = "closed", !.isConnected = FALSE,
                           !.tasks = Append(@, [pc |-> "idb", list |-> <<>>]),
                           !.reconnectDue = now + sync.reconnectBackoffMs,
                           !.reconnectBackoffMs = Min(@ * 2, maxBackoffMs)]
  /\ current' = [current EXCEPT !["A"] = NoPolicy]
  /\ UNCHANGED <<warm, now, store, req, inFlight, deferred, heartbeats, intervals,
                 timeouts, chan, sweep, sets, alive, peerSeen, persist>>

\* the 'message' event of socket k with a CACHE_CONFIG message
SocketMessage(k, payload) ==
  /\ sync.sockets[k] = "open"
  /\ sync.nMsgs < MaxObtained
  /\ triggerReceive(sync, payload)
  \* the listener added by connect() for this socket calls resolve(false)
  /\ req' = [r \in ReqIds |-> IF req[r].sock = k THEN [req[r] EXCEPT !.sock = 0]
                                ELSE req[r]]
  /\ UNCHANGED <<warm, now, store, inFlight, deferred, heartbeats, intervals,
                 timeouts, chan, sets, alive, peerSeen, persist>>

\* clearConfigFromIndexedDB has resolved in set(null): onReset is called and
\* awaits #getCache in clear(); set returns, and onDisconnect goes on to
\* start the polling manager
ResetPersistDone(t) ==
  /\ t \in DOMAIN sync.tasks
  /\ sync.tasks[t].pc = "idb"
  /\ sync' = [sync EXCEPT !.tasks[t].pc = "keys",
                           !.intervalDue =
                             IF @ = -1 /\ fallbackPollingIntervalMs > 0
                               THEN now + fallbackPollingIntervalMs ELSE @]
  /\ UNCHANGED <<warm, now, current, store, req, inFlight, deferred, heartbeats, intervals,
                 timeouts, chan, sweep, sets, alive, peerSeen, persist>>

\* clear(): caches.open and cache.keys have resolved, the deletes are issued
ClearKeys(t) ==
  /\ t \in DOMAIN sync.tasks
  /\ sync.tasks[t].pc = "keys"
  /\ sync' = [sync EXCEPT !.tasks[t] = [pc |-> "delete", list |-> StoreKeys(store)]]
  /\ UNCHANGED <<warm, now, current, store, req, inFlight, deferred, heartbeats, intervals,
                 timeouts, chan, sweep, sets, alive, peerSeen, persist>>

\* clear(): the deletes have resolved; onReset goes on to stop the polling
\* manager
ClearDone(t) ==
  /\ t \in DOMAIN sync.tasks
  /\ sync.tasks[t].pc = "delete"
  /\ store' = SelectSeq(store, LAMBDA e :
                 \A i \in 1..Len(sync.tasks[t].list) : sync.tasks[t].list[i] # e.url)
  /\ sync' = [sync EXCEPT !.tasks = [j \in 1..(Len(@) - 1) |->
                                       IF j < t THEN @[j] ELSE @[j + 1]],
                           !.intervalDue = -1]
  /\ UNCHANGED <<warm, now, current, req, inFlight, deferred, heartbeats, intervals,
                 timeouts, chan, sweep, sets, alive, peerSeen, persist>>

\* the polling manager's setInterval callback: onPoll calls poll(), which
\* returns at once while connected and otherwise fetches the policy
PollTick ==
  /\ sync.intervalDue >= 0
  /\ sync.intervalDue <= now
  /\ sync.nPolls < MaxPolls
  /\ sync' = IF sync.isConnected
               THEN [sync EXCEPT !.intervalDue = @ + fallbackPollingIntervalMs]
               ELSE [sync EXCEPT !.intervalDue = @ + fallbackPollingIntervalMs,
                                 !.polls = @ + 1, !.nPolls = @ + 1]
  /\ UNCHANGED <<warm, now, current, store, req, inFlight, deferred, heartbeats, intervals,
                 timeouts, chan, sweep, sets, alive, peerSeen, persist>>

\* the poll's fetch and result.json() have resolved with a policy
PollDone(payload) ==
  /\ sync.polls > 0
  /\ sync.nMsgs < MaxObtained
  /\ triggerReceive([sync EXCEPT !.polls = @ - 1], payload)
  /\ UNCHANGED <<warm, now, store, req, inFlight, deferred, heartbeats, intervals,
                 timeouts, chan, sets, alive, peerSeen, persist>>

\* the poll's fetch has failed: logged
PollFailed ==
  /\ sync.polls > 0
  /\ sync' = [sync EXCEPT !.polls = @ - 1]
  /\ UNCHANGED <<warm, now, current, store, req, inFlight, deferred, heartbeats, intervals,
                 timeouts, chan, sweep, sets, alive, peerSeen, persist>>

SyncDeadlines == {d \in {sync.reconnectDue, sync.intervalDue} : d >= 0}

\* the clock moves to the next timer that is due
AdvanceTimeSyncUpTo(maxTime) ==
  /\ SyncDeadlines # {}
  /\ \A d \in SyncDeadlines : d > now
  /\ LET next == CHOOSE d \in SyncDeadlines : \A e \in SyncDeadlines : d <= e
     IN next <= maxTime /\ now' = next
  /\ UNCHANGED <<warm, current, store, req, inFlight, deferred, heartbeats, intervals,
                 timeouts, chan, sweep, sets, alive, peerSeen, sync, persist>>

AdvanceTimeSync == AdvanceTimeSyncUpTo(SyncMaxTime)

\* A fresh instance without a policy
InitSyncSpec == InitWith({"A"}, {NoPolicy})

NextSync ==
  \/ ConnectCall
  \/ ReconnectFire
  \/ \E k \in DOMAIN sync.sockets : SocketOpen(k)
  \/ \E k \in DOMAIN sync.sockets : SocketError(k)
  \/ \E k \in DOMAIN sync.sockets : SocketClose(k)
  \/ \E k \in DOMAIN sync.sockets : \E m \in SyncPayloads : SocketMessage(k, m)
  \/ \E t \in DOMAIN sync.tasks : ResetPersistDone(t)
  \/ \E t \in DOMAIN sync.tasks : ClearKeys(t)
  \/ \E t \in DOMAIN sync.tasks : ClearDone(t)
  \/ PollTick
  \/ \E m \in SyncPayloads : PollDone(m)
  \/ PollFailed
  \/ \E s \in DOMAIN sweep : SweepOpen(s)
  \/ AdvanceTimeSync

SpecSync == InitSyncSpec /\ [][NextSync]_vars

\* C18 (as claimed): at most one policy stream socket is connecting or open
\* at any time.
C18_OneLiveSocket ==
  Cardinality({k \in DOMAIN sync.sockets : sync.sockets[k] \in {"connecting", "open"}}) <= 1

\* the disconnect handling (policy reset and cache clear) is over
DisconnectHandled ==
  /\ \E k \in DOMAIN sync.sockets : sync.sockets[k] = "closed"
  /\ sync.tasks = <<>>

\* C19 (as claimed): with fallback polling configured, once the stream has
\* closed and the disconnect handling has finished, the fallback poll timer
\* runs for as long as the stream has not opened again; while the stream is
\* open and no disconnect handling is under way the poll timer is stopped.
C19_PollTimerFollowsStream ==
  DisconnectHandled =>
    /\ ~sync.isConnected => sync.intervalDue # -1
    /\ sync.isConnected => sync.intervalDue = -1

\* the store was reset by a disconnect and holds no policy
AfterDisconnectReset ==
  /\ \E j \in DOMAIN sync.sockets : sync.sockets[j] = "closed"
  /\ current["A"] = NoPolicy

\* a poll made while disconnected delivers its policy
PollObtains ==
  /\ \A j \in DOMAIN sync.sockets : sync.sockets[j] # "open"
  /\ \E m \in SyncPayloads : PollDone(m)

\* the socket that opened after every earlier one had closed delivers a
\* CACHE_CONFIG message
ReconnectObtains ==
  /\ sync.isConnected
  /\ \A j \in 1..(Len(sync.sockets) - 1) : sync.sockets[j] = "closed"
  /\ \E m \in SyncPayloads : SocketMessage(Len(sync.sockets), m)

\* C20 (as claimed): after a stream disconnect has reset the policy store,
\* the first policy obtained from the server, by a poll while disconnected
\* or by a message after the reconnect, becomes the store's active policy,
\* also when it equals the policy that was active before the disconnect.
C20_ObtainedAfterResetIsActive ==
  [][(AfterDisconnectReset /\ (PollObtains \/ ReconnectObtains))
       => current'["A"] = sync'.lastObtained.config]_vars

\* policy m is delivered, by the stream or by a poll
Delivers(m) == PollDone(m) \/ \E k \in DOMAIN sync.sockets : SocketMessage(k, m)

\* onReceiveNewCacheConfig (cacheConfigStore.set) runs in this step: the
\* store takes the policy and onSet starts its sweep
OnReceiveCalled == sweep' = storeSet_sweep

\* C21 (as claimed): onReceive is invoked for a delivered policy if and only
\* if it differs structurally from the last policy passed to onReceive; a
\* structurally identical policy whose keys arrive in another order causes
\* no further onReceive.
C21_OnReceiveIffStructurallyNew ==
  [][\A m \in SyncPayloads :
       Delivers(m) => (OnReceiveCalled <=> m.config # sync.currentCacheConfig.config)]_vars

-----------------------------------------------------------------------------
(* The reconnect backoff: one connect() at start-up, then only the         *)
(* reconnect timer makes sockets; each socket opens or fails, and closes.  *)

\* sockets ever created
BackoffMaxSockets == 7
\* the clock stops here
BackoffMaxTime == 61000

NextBackoff ==
  \/ ConnectCallUpTo(1)
  \/ ReconnectFireUpTo(BackoffMaxSockets)
  \/ \E k \in DOMAIN sync.sockets : SocketOpen(k)
  \/ \E k \in DOMAIN sync.sockets : SocketError(k)
  \/ \E k \in DOMAIN sync.sockets : SocketClose(k)
  \/ AdvanceTimeSyncUpTo(BackoffMaxTime)

SpecBackoff == InitSyncSpec /\ [][NextBackoff]_vars

RECURSIVE Pow2(_)
Pow2(n) == IF n = 0 THEN 1 ELSE 2 * Pow2(n - 1)

\* the delay of the n-th consecutive reconnect attempt: 1000, 2000, 4000,
\* 8000, 16000, 30000, 30000, ...
ExpectedDelay(n) == IF n >= 6 THEN 30000 ELSE 1000 * Pow2(n - 1)

\* C22: a close schedules the reconnect after the n-th delay of the
\* sequence 1000, 2000, 4000, 8000, 16000, 30000, 30000, ... and leaves
\* the (n+1)-th as the next delay, n counting the closes since the last
\* open; every open makes the next delay the first of the sequence, 1000.
C22_BackoffSequence ==
  [][/\ (\E k \in DOMAIN sync.sockets : SocketClose(k)) =>
          \E n \in 1..(BackoffMaxSockets + 1) :
            /\ sync.reconnectBackoffMs = ExpectedDelay(n)
            /\ n = 1 \/ sync.isConnected = FALSE
            /\ sync'.reconnectDue = now + ExpectedDelay(n)
            /\ sync'.reconnectBackoffMs = ExpectedDelay(n + 1)
     /\ (\E k \in DOMAIN sync.sockets : SocketOpen(k)) =>
          sync'.reconnectBackoffMs = ExpectedDelay(1)]_vars

\* the sixth and the seventh close in a row have both scheduled a reconnect
\* after 30000 ms
C22_Witness ==
  /\ Len(sync.sockets) = 7
  /\ \A k \in DOMAIN sync.sockets : sync.sockets[k] = "closed"
  /\ sync.reconnectDue = now + 30000
  /\ now = 61000

-----------------------------------------------------------------------------
(* Request handling across a disconnect: the stream opens and delivers a   *)
(* policy, requests are intercepted, the stream closes and the reset       *)
(* clears the response store; all of it within one heartbeat interval.     *)

ClearPayloads == { [config |-> PolLong, keyOrder |-> 1] }
ClearInputs == {ReqUsersGet}

NextClear ==
  \/ ConnectCallUpTo(1)
  \/ \E k \in DOMAIN sync.sockets : SocketOpen(k)
  \/ \E k \in DOMAIN sync.sockets : \E m \in ClearPayloads : SocketMessage(k, m)
  \/ \E k \in DOMAIN sync.sockets : SocketClose(k)
  \/ \E t \in DOMAIN sync.tasks : ResetPersistDone(t)
  \/ \E t \in DOMAIN sync.tasks : ClearKeys(t)
  \/ \E t \in DOMAIN sync.tasks : ClearDone(t)
  \/ \E s \in DOMAIN sweep : SweepOpen(s)
  \/ \E s \in DOMAIN sweep : SweepMatchDone(s)
  \/ \E r \in PipeReqs : \E d \in ClearInputs : Intercept(r, d)
  \/ \E r \in PipeReqs : Resolve(r)
  \/ \E r \in PipeReqs : GetResponse(r)
  \/ \E r \in PipeReqs : KeyBuilt(r)
  \/ \E r \in PipeReqs : MatchDone(r)
  \/ \E r \in PipeReqs : \E o \in NetOutcomes : FetchDone(r, o)
  \/ \E r \in PipeReqs : PutDone(r)
  \/ \E r \in PipeReqs : SerializeDone(r)
  \/ \E r \in PipeReqs : AwaitDone(r)

SpecClear == InitSyncSpec /\ [][NextClear]_vars

\* C23 (as claimed): whenever the policy store is empty and the clear()
\* started by the reset has completed, the response store has no entries:
\* a fetch that was in flight at the reset does not write its result back.
C23_EmptyPolicyEmptyStore ==
  (current["A"] = NoPolicy /\ DisconnectHandled) => store = <<>>

-----------------------------------------------------------------------------
(* The policy store's durable side: set / reset with the IndexedDB record, *)
(* the cleanup timer, loadFromCacheIfValid, and a restart of the service   *)
(* worker, which keeps only the durable record.                            *)

\* set(p) and set(null) calls made by one run of the service worker
MaxSetCalls == 2
\* loadFromCacheIfValid calls made by one run
MaxLoads == 1
\* fresh installs of the service worker after the first
MaxRestarts == 1
\* the clock stops here
PersistMaxTime == 2000

\* the cacheTTL of the persisted policies of these scenarios
persistTtlMs == 1000

\* a policy to be persisted, and one without cacheTTL
PolPersist == [hosts |-> PolLong.hosts, cacheTTL |-> persistTtlMs]
PersistPolicies == {PolPersist, PolLong}

\* an IndexedDB operation completes, or opening the database fails
IdbOutcomes == {"ok", "error"}

\* the value of `store.get(configKey) || null` in loadConfigFromIndexedDB:
\* the IDBRequest that get() returns, whose result is not awaited
IDBRequest(record) == [readyState |-> "pending", source |-> "config"]
loadConfigFromIndexedDB(record) == IDBRequest(record)

\* saved?.config and a numeric saved.savedAt, in loadFromCacheIfValid
SavedUsable(saved) ==
  /\ Has(saved, "config")
  /\ saved.config # NoPolicy
  /\ Has(saved, "savedAt")
  /\ saved.savedAt >= 0

\* #clearScheduledCleanup()
clearScheduledCleanup(ps) ==
  IF ps.cleanupTimeoutId # -1
    THEN [ps EXCEPT !.timers = @ \ {ps.cleanupTimeoutId}, !.cleanupTimeoutId = -1]
    ELSE ps

\* #scheduleCleanup(ms): the handle of an earlier timer is overwritten
scheduleCleanup(ps, ms) ==
  [ps EXCEPT !.timers = @ \cup {now + ms}, !.cleanupTimeoutId = now + ms]

\* onReset is called: clear() awaits #getCache, then the polling is stopped
onReset_tasks(sy) == [sy EXCEPT !.tasks = Append(@, [pc |-> "keys", list |-> <<>>])]

\* set(newCacheConfig) up to its first await, or to its end when there is none
setBegin(ps, p) ==
  LET cleared == clearScheduledCleanup(ps)
  IN IF p = NoPolicy
       THEN [cleared EXCEPT !.calls = Append(@, [kind |-> "set", pc |-> "clear", arg |-> p]),
                            !.started.reset = @ + 1]
     ELSE IF Has(p, "cacheTTL") /\ p.cacheTTL # 0
       THEN [cleared EXCEPT !.calls = Append(@, [kind |-> "set", pc |-> "save", arg |-> p]),
                            !.started.set = @ + 1]
     ELSE [cleared EXCEPT !.started.set = @ + 1, !.fired.set = @ + 1]

RemoveAt(seq, c) == [j \in 1..(Len(seq) - 1) |-> IF j < c THEN seq[j] ELSE seq[j + 1]]

\* cacheConfigStore.set(p) is called (onReceiveNewCacheConfig), or reset()
\* (onDisconnect)
SetCall(p) ==
  /\ persist.started.set + persist.started.reset < MaxSetCalls
  /\ persist' = setBegin(persist, p)
  /\ current' = [current EXCEPT !["A"] = p]
  /\ sweep' = IF p # NoPolicy /\ ~(Has(p, "cacheTTL") /\ p.cacheTTL # 0)
                THEN storeSet_sweep ELSE sweep
  /\ UNCHANGED <<warm, now, store, req, inFlight, deferred, heartbeats, intervals,
                 timeouts, chan, sets, alive, peerSeen, sync>>

\* saveConfigToIndexedDB has settled in set(p): on success the record is
\* written with savedAt = Date.now(), the cleanup is scheduled and onSet is
\* called; on failure set rejects
SetSaveDone(c, o) ==
  /\ c \in DOMAIN persist.calls
  /\ persist.calls[c].kind = "set"
  /\ persist.calls[c].pc = "save"
  /\ LET p == persist.calls[c].arg
         rest == [persist EXCEPT !.calls = RemoveAt(@, c)]
     IN IF o = "ok"
          THEN /\ persist' = [scheduleCleanup(rest, p.cacheTTL) EXCEPT
                                !.record = [config |-> p, savedAt |-> now],
                                !.fired.set = @ + 1]
               /\ sweep' = storeSet_sweep
          ELSE /\ persist' = [rest EXCEPT !.threw = @ + 1]
               /\ UNCHANGED sweep
  /\ UNCHANGED <<warm, now, current, store, req, inFlight, deferred, heartbeats, intervals,
                 timeouts, chan, sets, alive, peerSeen, sync>>

\* clearConfigFromIndexedDB has settled in set(null): on success the record
\* is gone and onReset is called; on failure set rejects
SetClearDone(c, o) ==
  /\ c \in DOMAIN persist.calls
  /\ persist.calls[c].kind = "set"
  /\ persist.calls[c].pc = "clear"
  /\ LET rest == [persist EXCEPT !.calls = RemoveAt(@, c)]
     IN IF o = "ok"
          THEN /\ persist' = [rest EXCEPT !.record = NoRecord, !.fired.reset = @ + 1]
               /\ sync' = onReset_tasks(sync)
          ELSE /\ persist' = [rest EXCEPT !.threw = @ + 1]
               /\ UNCHANGED sync
  /\ UNCHANGED <<warm, now, current, store, req, inFlight, deferred, heartbeats, intervals,
                 timeouts, chan, sweep, sets, alive, peerSeen>>

\* a cleanup timeout fires: nothing to do without a policy, otherwise
\* clearConfigFromIndexedDB is awaited
CleanupFire(t) ==
  /\ t \in persist.timers
  /\ t <= now
  /\ persist' = [persist EXCEPT
                   !.timers = @ \ {t},
                   !.calls = IF current["A"] = NoPolicy THEN @
                             ELSE Append(@, [kind |-> "cleanup", pc |-> "clear",
                                             arg |-> NoPolicy])]
  /\ UNCHANGED <<warm, now, current, store, req, inFlight, deferred, heartbeats, intervals,
                 timeouts, chan, sweep, sets, alive, peerSeen, sync>>

\* clearConfigFromIndexedDB has settled in the cleanup callback: on success
\* reset() is called and runs to its own await; on failure the callback
\* rejects and nothing else happens
CleanupClearDone(c, o) ==
  /\ c \in DOMAIN persist.calls
  /\ persist.calls[c].kind = "cleanup"
  /\ LET rest == [persist EXCEPT !.calls = RemoveAt(@, c)]
     IN IF o = "ok"
          THEN /\ persist' = setBegin([rest EXCEPT !.record = NoRecord], NoPolicy)
               /\ current' = [current EXCEPT !["A"] = NoPolicy]
          ELSE /\ persist' = [rest EXCEPT !.threw = @ + 1]
               /\ UNCHANGED current
  /\ UNCHANGED <<warm, now, store, req, inFlight, deferred, heartbeats, intervals,
                 timeouts, chan, sweep, sets, alive, peerSeen, sync>>

\* index.js connect(): the stream's connect() has resolved and the store has
\* no policy, so loadFromCacheIfValid() is called
LoadCall ==
  /\ current["A"] = NoPolicy
  /\ Cardinality({c \in DOMAIN persist.calls : persist.calls[c].kind = "load"}) = 0
  /\ persist.loads < MaxLoads
  /\ persist' = [persist EXCEPT
                   !.calls = Append(@, [kind |-> "load", pc |-> "load", arg |-> NoPolicy]),
                   !.loads = @ + 1]
  /\ UNCHANGED <<warm, now, current, store, req, inFlight, deferred, heartbeats, intervals,
                 timeouts, chan, sweep, sets, alive, peerSeen, sync>>

\* what loadFromCacheIfValid does once `saved` is there: adopt the policy,
\* return without a change, or start the durable delete
loadOutcome(saved) ==
  IF ~SavedUsable(saved) THEN "ignore"
  ELSE IF ~(Has(saved.config, "cacheTTL") /\ saved.config.cacheTTL # 0) THEN "ignore"
  ELSE IF now < saved.savedAt + saved.config.cacheTTL THEN "adopt"
  ELSE "clear"

\* loadConfigFromIndexedDB has settled in loadFromCacheIfValid
LoadDone(c, o) ==
  /\ c \in DOMAIN persist.calls
  /\ persist.calls[c].kind = "load"
  /\ persist.calls[c].pc = "load"
  /\ LET saved == loadConfigFromIndexedDB(persist.record)
         rest == [persist EXCEPT !.calls = RemoveAt(@, c)]
     IN CASE o = "error" ->
               /\ persist' = [rest EXCEPT !.threw = @ + 1]
               /\ UNCHANGED <<current, sweep>>
          [] o = "ok" /\ loadOutcome(saved) = "ignore" ->
               /\ persist' = rest
               /\ UNCHANGED <<current, sweep>>
          [] o = "ok" /\ loadOutcome(saved) = "adopt" ->
               /\ persist' = scheduleCleanup(rest, saved.savedAt + saved.config.cacheTTL - now)
               /\ current' = [current EXCEPT !["A"] = saved.config]
               /\ sweep' = storeSet_sweep
          [] o = "ok" /\ loadOutcome(saved) = "clear" ->
               /\ persist' = [persist EXCEPT !.calls[c].pc = "clear"]
               /\ UNCHANGED <<current, sweep>>
  /\ UNCHANGED <<warm, now, store, req, inFlight, deferred, heartbeats, intervals,
                 timeouts, chan, sets, alive, peerSeen, sync>>

\* clearConfigFromIndexedDB has settled in loadFromCacheIfValid (no run
\* gets here: `saved` never has a config)
LoadClearDone(c, o) ==
  /\ c \in DOMAIN persist.calls
  /\ persist.calls[c].kind = "load"
  /\ persist.calls[c].pc = "clear"
  /\ LET rest == [persist EXCEPT !.calls = RemoveAt(@, c)]
     IN persist' = IF o = "ok" THEN [rest EXCEPT !.record = NoRecord]
                   ELSE [rest EXCEPT !.threw = @ + 1]
  /\ UNCHANGED <<warm, now, current, store, req, inFlight, deferred, heartbeats, intervals,
                 timeouts, chan, sweep, sets, alive, peerSeen, sync>>

\* the service worker is installed anew (a new version, or a new
\* registration): the script is evaluated and the install event sets env;
\* only the durable record and the response store remain
Restart ==
  /\ persist.restarts < MaxRestarts
  /\ persist' = [InitPersist EXCEPT !.record = persist.record,
                                    !.restarts = persist.restarts + 1]
  /\ current' = [current EXCEPT !["A"] = NoPolicy]
  /\ sweep' = <<>>
  /\ sync' = InitSync
  /\ UNCHANGED <<warm, now, store, req, inFlight, deferred, heartbeats, intervals,
                 timeouts, chan, sets, alive, peerSeen>>

\* the clock moves to the next cleanup timer, or by one ttl when none is set
AdvanceTimePersist ==
  /\ \A t \in persist.timers : t > now
  /\ LET next == IF persist.timers = {} THEN now + persistTtlMs
                 ELSE CHOOSE t \in persist.timers : \A u \in persist.timers : t <= u
     IN next <= PersistMaxTime /\ now' = next
  /\ UNCHANGED <<warm, current, store, req, inFlight, deferred, heartbeats, intervals,
                 timeouts, chan, sweep, sets, alive, peerSeen, sync, persist>>

NextPersist ==
  \/ \E p \in PersistPolicies \cup {NoPolicy} : SetCall(p)
  \/ \E c \in DOMAIN persist.calls : \E o \in IdbOutcomes : SetSaveDone(c, o)
  \/ \E c \in DOMAIN persist.calls : \E o \in IdbOutcomes : SetClearDone(c, o)
  \/ \E t \in persist.timers : CleanupFire(t)
  \/ \E c \in DOMAIN persist.calls : \E o \in IdbOutcomes : CleanupClearDone(c, o)
  \/ LoadCall
  \/ \E c \in DOMAIN persist.calls : \E o \in IdbOutcomes : LoadDone(c, o)
  \/ Restart
  \/ \E s \in DOMAIN sweep : SweepOpen(s)
  \/ \E t \in DOMAIN sync.tasks : ClearKeys(t)
  \/ \E t \in DOMAIN sync.tasks : ClearDone(t)
  \/ AdvanceTimePersist

SpecPersist == InitSyncSpec /\ [][NextPersist]_vars

PendingSets(isReset) ==
  {c \in DOMAIN persist.calls :
     persist.calls[c].kind = "set" /\ ((persist.calls[c].arg = NoPolicy) <=> isReset)}

\* every cleanup timeout that was due has fired and its callback has ended
ExpiryHandled ==
  /\ \A t \in persist.timers : t > now
  /\ \A c \in DOMAIN persist.calls : persist.calls[c].kind # "cleanup"

\* the durable record is the one written by the only set(p) of this run
SetOnce ==
  /\ persist.record # NoRecord
  /\ persist.restarts = 0
  /\ persist.started.set = 1
  /\ PendingSets(FALSE) = {}

\* C24 (as claimed): a policy persisted at time s with cacheTTL T and not
\* set again is not the active policy at a time >= s + T, once the expiry
\* timer has fired and its callback has ended.
C24_ExpiredPolicyNotActive ==
  (SetOnce /\ ExpiryHandled /\ current["A"] = persist.record.config)
    => now < persist.record.savedAt + persist.record.config.cacheTTL

\* the durable record is one that loadFromCacheIfValid is to adopt
RecordValid ==
  /\ persist.record # NoRecord
  /\ Has(persist.record.config, "cacheTTL")
  /\ now < persist.record.savedAt + persist.record.config.cacheTTL

\* C25 (as claimed): when the durable read of loadFromCacheIfValid
\* completes and a record with savedAt + cacheTTL > now exists, its policy
\* becomes the active policy and the cleanup is scheduled for the remaining
\* window; in every other case the load leaves the store as it is and the
\* record is cleared (or its delete is under way).
C25_LoadAdoptsValidRecord ==
  [][\A c \in DOMAIN persist.calls :
       LoadDone(c, "ok") =>
         IF RecordValid
           THEN /\ current'["A"] = persist.record.config
                /\ persist'.cleanupTimeoutId =
                     persist.record.savedAt + persist.record.config.cacheTTL
           ELSE /\ current'["A"] = current["A"]
                /\ \/ persist'.record = NoRecord
                   \/ \E d \in DOMAIN persist'.calls : persist'.calls[d].pc = "clear"]_vars

\* C26 (as claimed): when the durable write or delete of a set call fails,
\* the call does not reject, the in-memory policy stays the argument (no
\* other set being under way), and onSet / onReset is called.
C26_DurableFailureSwallowed ==
  [][\A c \in DOMAIN persist.calls :
       (SetSaveDone(c, "error") \/ SetClearDone(c, "error")) =>
         /\ persist'.threw = persist.threw
         /\ persist'.fired.set + persist'.fired.reset
              = persist.fired.set + persist.fired.reset + 1
         /\ Len(persist.calls) = 1 => current'["A"] = persist.calls[c].arg]_vars

\* C29 (as claimed): every set(p) that has ended has called onSet exactly
\* once and every set(null) that has ended has called onReset exactly once,
\* whatever p was; no callback is called for a set still awaiting its
\* durable step, so each is called after #current took that call's argument.
C29_OneCallbackPerSet ==
  /\ persist.fired.set + Cardinality(PendingSets(FALSE)) = persist.started.set
  /\ persist.fired.reset + Cardinality(PendingSets(TRUE)) = persist.started.reset

-----------------------------------------------------------------------------
(* Request handling when an operation on the response store rejects.       *)

\* the response-store operation request r awaits rejects: caches.open in
\* connectAndFetch, cache.match or cache.delete in getResponse, cache.put in
\* fetchAndStoreInCache.  None of the call sites catches, so the promise
\* given to respondWith rejects; a failed put passes through the catch
\* (log and rethrow) and the finally block of getDedupedResponse
StoreOpFailed(r) ==
  /\ req[r].pc \in {"open", "match", "delete", "put"}
  /\ req' = [req EXCEPT ![r] = [@ EXCEPT !.pc = "done", !.out = ErrOut(r)]]
  /\ IF req[r].pc = "put"
       THEN /\ DedupFinally(r)
            /\ chan' = Post(chan, ReqInst[r],
                            endHeartbeat_msgs(intervals[ReqInst[r]], req[r].key))
       ELSE UNCHANGED <<inFlight, intervals, timeouts, chan>>
  /\ UNCHANGED <<warm, now, current, store, deferred, heartbeats, sweep, sets, alive, peerSeen,
                 sync, persist>>

StoreFailInputs == {ReqUsersGet}

NextStoreFail ==
  \/ \E r \in PipeReqs : \E d \in StoreFailInputs : Intercept(r, d)
  \/ \E r \in PipeReqs : Resolve(r)
  \/ \E r \in PipeReqs : GetResponse(r)
  \/ \E r \in PipeReqs : KeyBuilt(r)
  \/ \E r \in PipeReqs : MatchDone(r)
  \/ \E r \in PipeReqs : DeleteDone(r)
  \/ \E r \in PipeReqs : \E o \in NetOutcomes : FetchDone(r, o)
  \/ \E r \in PipeReqs : PutDone(r)
  \/ \E r \in PipeReqs : SerializeDone(r)
  \/ \E r \in PipeReqs : AwaitDone(r)
  \/ \E r \in PipeReqs : StoreOpFailed(r)
  \/ \E key \in DOMAIN intervals["A"] : HeartbeatTick("A", key)
  \/ AdvanceTime(PipeMaxTicks, FALSE)

SpecStoreFail == InitCorrupt /\ [][NextStoreFail]_vars

\* C27 (as claimed): a response-store operation (open, match, put, delete)
\* that fails during request handling does not make the intercepted request
\* fail: the step in which it fails does not end the request with an error.
C27_StoreFailureNotSurfaced ==
  [][\A r \in PipeReqs : StoreOpFailed(r) => req'[r].out.kind # "error"]_vars

-----------------------------------------------------------------------------
(* connectAndFetch with its await connect(), and the env the install       *)
(* event left behind.                                                      *)

\* env after the install event: a complete object; {} (no env parameter);
\* null (the parameter is not JSON: JSON.parse threw before the assignment);
\* an object without cacheName; an object without websocketServerUrl
EnvKinds == {"valid", "empty", "invalidJson", "noCacheName", "noWs"}
HasWsUrl(e) == e \in {"valid", "noCacheName"}

\* new WebSocket(undefined): a SyntaxError, or, where the URL may be
\* relative, a socket to <base>/undefined
WsUndefinedOutcomes == {"throws", "socket"}

ConnectInputs == {ReqUsersGet}

\* the 'fetch' event: connectAndFetch(event.request) runs connect() up to the
\* await of the stream's connect() promise, or to its failure
InterceptConnect(r, d, ws) ==
  /\ req[r].pc = "idle"
  /\ ReqInst[r] \in alive
  /\ \A q \in ReqIds : (q < r /\ ReqInst[q] = ReqInst[r]) => req[q].pc # "idle"
  /\ LET begun == [req[r] EXCEPT !.d = d,
                                 !.concurrent = {q \in ReqIds \ {r} :
                                                   ReqInst[q] = ReqInst[r] /\ InProgress(q)}]
         isOpen == sync.socket # 0 /\ sync.sockets[sync.socket] = "open"
     IN CASE sync.env = "invalidJson" ->
               \* env.websocketServerUrl throws on null; so does getPollingManager()
               \* in the catch block: connect() rejects and so does connectAndFetch
               /\ req' = [req EXCEPT ![r] = [begun EXCEPT !.pc = "done", !.out = ErrOut(r)]]
               /\ UNCHANGED sync
          [] sync.env # "invalidJson" /\ ~HasWsUrl(sync.env) /\ ws = "throws" ->
               \* the executor throws, connect() catches; no polling is configured
               /\ req' = [req EXCEPT ![r] = [begun EXCEPT !.pc = "connect"]]
               /\ UNCHANGED sync
          [] sync.env # "invalidJson" /\ (HasWsUrl(sync.env) \/ ws = "socket") /\ isOpen ->
               \* resolve(true)
               /\ ws = "socket"
               /\ req' = [req EXCEPT ![r] = [begun EXCEPT !.pc = "connect"]]
               /\ UNCHANGED sync
          [] OTHER ->
               \* a new socket; the promise waits for its first message
               /\ ws = "socket"
               /\ Len(sync.sockets) < MaxSockets
               /\ sync' = syncConnect(sync)
               /\ req' = [req EXCEPT ![r] = [begun EXCEPT !.pc = "connect",
                                                          !.sock = Len(sync.sockets) + 1]]
  /\ UNCHANGED <<warm, now, current, store, inFlight, deferred, heartbeats, intervals,
                 timeouts, chan, sweep, sets, alive, peerSeen, persist>>

\* the steps of one request after its connect() has settled
RequestStep(r) ==
  \/ Resolve(r)
  \/ GetResponse(r)
  \/ KeyBuilt(r)
  \/ MatchDone(r)
  \/ \E o \in NetOutcomes : FetchDone(r, o)
  \/ PutDone(r)
  \/ SerializeDone(r)

\* what the stream and the reset handlers do
StreamStep ==
  \/ \E k \in DOMAIN sync.sockets : SocketOpen(k)
  \/ \E k \in DOMAIN sync.sockets : \E m \in ClearPayloads : SocketMessage(k, m)
  \/ \E k \in DOMAIN sync.sockets : SocketClose(k)
  \/ \E t \in DOMAIN sync.tasks : ResetPersistDone(t)
  \/ \E t \in DOMAIN sync.tasks : ClearKeys(t)
  \/ \E t \in DOMAIN sync.tasks : ClearDone(t)
  \/ \E s \in DOMAIN sweep : SweepOpen(s)

InitEnv ==
  /\ InitCore({"A"}, {NoPolicy})
  /\ store = <<>>
  /\ \E e \in EnvKinds : sync = [InitSync EXCEPT !.env = e]

NextEnv ==
  \/ \E d \in ConnectInputs : \E ws \in WsUndefinedOutcomes : InterceptConnect(1, d, ws)
  \/ RequestStep(1)
  \/ StreamStep

SpecEnv == InitEnv /\ [][NextEnv]_vars

\* C28 (as claimed): with env absent, not valid JSON, or lacking cacheName
\* or websocketServerUrl, every intercepted request that has been answered
\* was answered by one direct network fetch with no operation on the
\* response store and no deduplication, and none failed without a fetch.
C28_InvalidEnvBypasses ==
  sync.env # "valid" =>
    \A r \in ReqIds :
      req[r].pc = "done" =>
        /\ req[r].fetches = 1
        /\ req[r].storeOps = 0
        /\ ~req[r].dedup

\* One request under a complete env; every step of the request and the
\* network fetch are taken when they can be, the stream is free to do
\* anything or nothing.
NextConnect ==
  \/ \E d \in ConnectInputs : InterceptConnect(1, d, "socket")
  \/ RequestStep(1)
  \/ StreamStep

SpecConnectLive == InitSyncSpec /\ [][NextConnect]_vars /\ WF_vars(RequestStep(1))

\* C30 (as claimed): every intercepted request eventually gets a response
\* or an error, whatever the policy stream does, provided the request's
\* own network fetch completes.
C30_RequestEventuallyAnswered ==
  (req[1].pc # "idle") ~> (req[1].pc = "done")

-----------------------------------------------------------------------------
(* Deduplication: what a broadcast promises *)

\* the response-ready messages for a 2xx response that are on their way to j
ReadyOkInFlight(j) ==
  {n \in 1..Len(chan[j]) : chan[j][n].type = "response-ready" /\ chan[j][n].ok}

\* C31: while a response-ready message for a 2xx response is on its way to a
\* peer, the response store holds an entry under the message's key: the
\* publisher's cache.put resolved before it posted the message.
C31_ReadyAfterStoreWrite ==
  \A j \in Insts : \A n \in ReadyOkInFlight(j) :
    IsEntry(StoreMatch(store, chan[j][n].key))

\* a 2xx response-ready message is on its way to a peer that has no call
\* pending for the key (the message will not be used), and the entry the
\* publisher wrote is in the store
C31_Witness ==
  \E j \in Insts : \E n \in ReadyOkInFlight(j) :
    /\ chan[j][n].key \notin DOMAIN inFlight[j]
    /\ IsEntry(StoreMatch(store, chan[j][n].key))
    /\ StoreMatch(store, chan[j][n].key).by = chan[j][n].by

\* the heartbeat entry of the key is gone in the instance of call r while the
\* instance's own heartbeat interval for the key runs: startHeartbeat and
\* every tick write the entry, and only the receipt of a task-end deletes it
TaskEndErasedOwn(r) ==
  /\ req[r].key \in DOMAIN intervals[ReqInst[r]]
  /\ req[r].key \notin DOMAIN heartbeats[ReqInst[r]]

\* C32 (as claimed): a task-end received for a key has no effect on the
\* pending completion of that key in the receiving instance: when the dedup
\* timeout of the pending call fires after the receipt, the completion stays
\* pending and the key stays in inFlight.
C32_TaskEndHasNoEffect ==
  [][\A r \in ReqIds :
       (/\ TimeoutFire(r)
        /\ deferred[r].state = "pending"
        /\ TaskEndErasedOwn(r)) =>
         (/\ deferred'[r].state = "pending"
          /\ req[r].key \in DOMAIN inFlight'[ReqInst[r]])]_vars

\* a getDedupedResponse call of instance i that registered the key is between
\* its inFlightRequests.set and its finally block
OwnCallPending(i, key) ==
  \E r \in ReqIds :
    /\ ReqInst[r] = i
    /\ req[r].pc \in {"fetching", "put", "serialize"}
    /\ req[r].key = key

KeysSeen == {req[r].key : r \in {q \in ReqIds : req[q].key # NoKey}}

\* C33 (as claimed): in each instance and for every key, the key is in
\* inFlight iff a local heartbeat interval runs for it iff a call that
\* registered it is still pending.
C33_InFlightHeartbeatPendingAgree ==
  \A i \in Insts : \A key \in KeysSeen :
    /\ (key \in DOMAIN inFlight[i]) <=> (key \in DOMAIN intervals[i])
    /\ (key \in DOMAIN intervals[i]) <=> OwnCallPending(i, key)

-----------------------------------------------------------------------------
(* debounce (utils.js) and debouncedWarmUpCache = debounce(warmUpCache, 500) *)
(* of index.js.  The timer of call c is due delayMs after the call.  A      *)
(* warmUpCache invocation computes its prefetch list at once, awaits        *)
(* caches.open, starts getResponse for every request of the list and awaits *)
(* Promise.allSettled.                                                      *)

\* calls of the debounced function
MaxTriggers == 3
\* the longest the clock moves in one step
WarmTick == 250
\* the clock stops here
WarmMaxTime == 1500

\* debounce(warmUpCache, 500)
delayMs == 500

\* the argument lists the debounced function is called with
WarmArgs == {{"on-update", "always"}, {"on-load"}}

\* what caches.open may do
OpenOutcomes == {"ok", "error"}

\* a clearTimeout that leaves the timer set
clearTimeout_Kept(timers, id) == timers

clearTimeout(timers, id) == timers \ {id}

\* the wrapper debounce returns, called with args: a pending timer is
\* cleared, a new promise is returned and a new timer is set.  by names the
\* policy change whose onSet made the call, 0 for another caller.
debounced(w, args, by) ==
  LET c == Len(w.calls) + 1
  IN [w EXCEPT !.timers = (IF w.timerId # 0 THEN clearTimeout(@, w.timerId) ELSE @) \cup {c},
               !.timerId = c,
               !.calls = Append(@, [at |-> now, args |-> args, by |-> by,
                                    state |-> "pending"])]

\* new Request(`${host}/${path}`, { method: method.toUpperCase() })
PrefetchRequest(host, path, method) ==
  [origin |-> host, pathname |-> <<"/">> \o path, search |-> <<>>,
   method |-> toUpperCase(method), headers |-> <<>>, body |-> ""]

\* iterateConfigEntries(): one request per host, endpoint and method
ConfigEntries(cur) ==
  IF cur = NoPolicy \/ ~Has(cur, "hosts") THEN {}
  ELSE {PrefetchRequest(h, e, m) :
          <<h, e, m>> \in {t \in UNION {UNION {{<<h, e, m>> :
                                  m \in (IF Has(cur.hosts[h].endpoints[e], "methods")
                                           THEN DOMAIN cur.hosts[h].endpoints[e].methods
                                           ELSE {})} :
                             e \in (IF Has(cur.hosts[h], "endpoints")
                                      THEN DOMAIN cur.hosts[h].endpoints ELSE {})} :
                      h \in DOMAIN cur.hosts} : TRUE}}

\* the entries listed one after the other (the order of the policy's text;
\* the model fixes one order)
RECURSIVE ListOf(_)
ListOf(S) ==
  IF S = {} THEN <<>>
  ELSE LET x == CHOOSE y \in S : TRUE IN <<x>> \o ListOf(S \ {x})

\* getPrefetchRequests(modes): resolveRequestSettings(request) is called
\* without a blackList
getPrefetchRequests(cur, modes) ==
  ListOf({d \in ConfigEntries(cur) :
            LET settings == resolveRequestSettings(cur, d, {})
            IN IsSettings(settings) /\ settings.prefetch \in modes})

\* debouncedWarmUpCache(args) is called
Trigger(args) ==
  /\ Len(warm.calls) < MaxTriggers
  /\ now + delayMs <= WarmMaxTime
  /\ warm' = debounced(warm, args, 0)
  /\ UNCHANGED <<now, current, store, req, inFlight, deferred, heartbeats, intervals,
                 timeouts, chan, sweep, sets, alive, peerSeen, sync, persist>>

\* the setTimeout callback of call c: warmUpCache(args) runs up to its await
\* of caches.open
DebounceTimerFire(c) ==
  /\ c \in warm.timers
  /\ warm.calls[c].at + delayMs <= now
  /\ warm' = [warm EXCEPT
       !.timers = @ \ {c},
       !.runs = Append(@, [call |-> c, at |-> now, args |-> warm.calls[c].args,
                           pc |-> "open", reqs |-> {},
                           list |-> getPrefetchRequests(current["A"],
                                                        warm.calls[c].args)])]
  /\ UNCHANGED <<now, current, store, req, inFlight, deferred, heartbeats, intervals,
                 timeouts, chan, sweep, sets, alive, peerSeen, sync, persist>>

\* the request slots of instance A that are free
IdleSlots == {r \in ReqIds : ReqInst[r] = "A" /\ req[r].pc = "idle"}

\* getResponse(request, ...) up to its first await
warmGetResponse(d) ==
  LET cfg == resolveRequestSettings(current["A"], d, {})
      rec == [IdleReq EXCEPT !.d = d, !.pol1 = current["A"]]
  IN IF IsSettings(cfg) THEN [rec EXCEPT !.pc = "key", !.settings = cfg]
     ELSE [rec EXCEPT !.pc = "bypass", !.fetches = 1]

\* caches.open has settled in invocation k of warmUpCache.  On failure the
\* invocation rejects and so does the promise of its call.  On success every
\* request of the list enters getResponse; with an empty list allSettled
\* resolves at once.
WarmUpOpenDone(k, o) ==
  /\ k \in DOMAIN warm.runs
  /\ warm.runs[k].pc = "open"
  /\ LET run == warm.runs[k]
         n == Len(run.list)
     IN CASE o = "error" ->
               /\ warm' = [warm EXCEPT !.runs[k].pc = "done",
                                        !.calls[run.call].state = "rejected"]
               /\ UNCHANGED req
          [] o = "ok" /\ n = 0 ->
               /\ warm' = [warm EXCEPT !.runs[k].pc = "done",
                                        !.calls[run.call].state = "resolved"]
               /\ UNCHANGED req
          [] OTHER ->
               /\ Cardinality(IdleSlots) >= n
               /\ LET slots == CHOOSE f \in [1..n -> IdleSlots] :
                                 \A a, b \in 1..n : a < b => f[a] < f[b]
                  IN /\ req' = [r \in ReqIds |->
                                  IF \E a \in 1..n : slots[a] = r
                                    THEN warmGetResponse(
                                           run.list[CHOOSE a \in 1..n : slots[a] = r])
                                    ELSE req[r]]
                     /\ warm' = [warm EXCEPT !.runs[k].pc = "settle",
                                              !.runs[k].reqs = {slots[a] : a \in 1..n}]
  /\ UNCHANGED <<now, current, store, inFlight, deferred, heartbeats, intervals,
                 timeouts, chan, sweep, sets, alive, peerSeen, sync, persist>>

\* Promise.allSettled has resolved in invocation k: rejections are logged,
\* warmUpCache resolves and so does the promise of its call
WarmUpSettled(k) ==
  /\ k \in DOMAIN warm.runs
  /\ warm.runs[k].pc = "settle"
  /\ \A r \in warm.runs[k].reqs : req[r].pc = "done"
  /\ warm' = [warm EXCEPT !.runs[k].pc = "done",
                           !.calls[warm.runs[k].call].state = "resolved"]
  /\ req' = [r \in ReqIds |-> IF r \in warm.runs[k].reqs THEN IdleReq ELSE req[r]]
  /\ UNCHANGED <<now, current, store, inFlight, deferred, heartbeats, intervals,
                 timeouts, chan, sweep, sets, alive, peerSeen, sync, persist>>

WarmDeadlines == {warm.calls[c].at + delayMs : c \in warm.timers}

\* the clock moves by WarmTick, or to the next debounce timer if that is
\* nearer; a timer that is due runs first
AdvanceTimeWarmUpTo(maxTime) ==
  /\ now < maxTime
  /\ \A d \in WarmDeadlines : d > now
  /\ ~TimerDue
  /\ now' = IF \E d \in WarmDeadlines : d < now + WarmTick
              THEN CHOOSE d \in WarmDeadlines : \A e \in WarmDeadlines : d <= e
              ELSE now + WarmTick
  /\ UNCHANGED <<warm, current, store, req, inFlight, deferred, heartbeats, intervals,
                 timeouts, chan, sweep, sets, alive, peerSeen, sync, persist>>

AdvanceTimeWarm == AdvanceTimeWarmUpTo(WarmMaxTime)

\* The debounced function alone: calls with any arguments at any time
NextDebounce ==
  \/ \E args \in WarmArgs : Trigger(args)
  \/ \E c \in warm.timers : DebounceTimerFire(c)
  \/ \E k \in DOMAIN warm.runs : \E o \in OpenOutcomes : WarmUpOpenDone(k, o)
  \/ AdvanceTimeWarm

SpecDebounce == InitSyncSpec /\ [][NextDebounce]_vars

\* call c was followed by another call less than delayMs later
Superseded(c) ==
  c < Len(warm.calls) /\ warm.calls[c + 1].at - warm.calls[c].at < delayMs

\* no call came within delayMs after call c.  (A call exactly delayMs
\* after c comes before or after c's timer, as the browser orders them.)
Unfollowed(c) ==
  c = Len(warm.calls) \/ warm.calls[c + 1].at - warm.calls[c].at > delayMs

RunsOf(c) == {k \in DOMAIN warm.runs : warm.runs[k].call = c}

\* C34: a call that is followed by another within delayMs produces no
\* invocation; a call that is not, produces exactly one, delayMs after the
\* call and with the call's arguments.  So a burst of triggers, each within
\* 500 ms of the one before, yields one invocation, 500 ms after the last
\* trigger and with its arguments.
C34_OneTrailingInvocation ==
  \A c \in DOMAIN warm.calls :
    /\ Superseded(c) => RunsOf(c) = {}
    /\ \A k \in RunsOf(c) :
         /\ warm.runs[k].at = warm.calls[c].at + delayMs
         /\ warm.runs[k].args = warm.calls[c].args
         /\ \A j \in RunsOf(c) : j = k
    /\ (Unfollowed(c) /\ now > warm.calls[c].at + delayMs) => RunsOf(c) # {}

\* three triggers, each after the one before and within delayMs of it, the
\* first and the last with different arguments; the only invocation is that
\* of the last trigger
C34_Witness ==
  /\ Len(warm.calls) = 3
  /\ \A c \in 1..2 : warm.calls[c + 1].at > warm.calls[c].at /\ Superseded(c)
  /\ warm.calls[1].args # warm.calls[3].args
  /\ Len(warm.runs) = 1
  /\ warm.runs[1].call = 3
  /\ warm.runs[1].at = warm.calls[3].at + delayMs
  /\ warm.runs[1].args = warm.calls[3].args

\* The same, where the clock runs on, a due timer fires and caches.open
\* settles
DebounceProgress ==
  \/ \E c \in warm.timers : DebounceTimerFire(c)
  \/ \E k \in DOMAIN warm.runs : \E o \in OpenOutcomes : WarmUpOpenDone(k, o)
  \/ AdvanceTimeWarm

SpecDebounceLive == InitSyncSpec /\ [][NextDebounce]_vars /\ WF_vars(DebounceProgress)

\* C35 (as claimed): the promise returned by every call of the debounced
\* function eventually settles.
C35_EveryCallSettles ==
  \A c \in 1..MaxTriggers :
    (c \in DOMAIN warm.calls) ~>
      (c \in DOMAIN warm.calls /\ warm.calls[c].state # "pending")

-----------------------------------------------------------------------------
(* Warm-up after a policy change: store.set, onSet's stale sweep, the       *)
(* debounced warm-up and its prefetches through getResponse.  The trigger   *)
(* that the onConnect callback of the stream client makes is the same call  *)
(* of debouncedWarmUpCache; SocketOpen leaves it out.                       *)

\* a policy that asks for prefetching, on an origin env.ignoreOrigins lists
\* too; lm is the modification time the server reports for "users"
PolWarm(lm) ==
  [hosts |->
     (Api :> [endpoints |->
                (<<"users">> :> [settings |-> [lastModified |-> lm],
                                 methods |-> ("GET" :> [ttl |-> 60000,
                                                        prefetch |-> "always"])])]
      @@ Dev :> [endpoints |->
                   (<<"users">> :> [methods |-> ("GET" :> [ttl |-> 60000,
                                                           prefetch |-> "on-update"])])])]

WarmPoliciesAt(t) == {PolWarm(0), PolWarm(t)}

\* what the network answers to a prefetch: a 2xx response or a failure
WarmNetOutcomes == {"ok", "error"}

\* the clock of the warm-up specification stops here
OnSetMaxTime == 1000

\* an onSet that does not await deleteStaleEntries
onSetReachedWarmUp_NoAwait(s) == TRUE

\* onSet of policy change s: await deleteStaleEntries(...) has returned
onSetReachedWarmUp(s) == sweep[s].pc = "done"

WarmUpTriggered(s) == \E c \in DOMAIN warm.calls : warm.calls[c].by = s

\* onSet of policy change s goes on after the stale sweep:
\* debouncedWarmUpCache(['on-update', 'always'])
OnSetWarmUp(s) ==
  /\ s \in DOMAIN sweep
  /\ onSetReachedWarmUp(s)
  /\ ~WarmUpTriggered(s)
  /\ warm' = debounced(warm, {"on-update", "always"}, s)
  /\ UNCHANGED <<now, current, store, req, inFlight, deferred, heartbeats, intervals,
                 timeouts, chan, sweep, sets, alive, peerSeen, sync, persist>>

\* onSet goes on as soon as the sweep has returned: the clock does not move
\* in between.  Only the network outlasts a clock step: the operations on
\* the response store finish within the step they started in.
AdvanceTimeOnSet ==
  /\ \A s \in DOMAIN sweep : sweep[s].pc = "done" /\ WarmUpTriggered(s)
  /\ \A k \in DOMAIN warm.runs : warm.runs[k].pc # "open"
  /\ \A q \in ReqIds : req[q].pc \in {"idle", "bypass", "fetching", "await", "done"}
  /\ AdvanceTimeWarmUpTo(OnSetMaxTime)

NextWarm ==
  \/ \E p \in WarmPoliciesAt(now) : SetCall(p)
  \/ \E s \in DOMAIN sweep : SweepOpen(s)
  \/ \E s \in DOMAIN sweep : SweepMatchDone(s)
  \/ \E s \in DOMAIN sweep : SweepDeleteDone(s)
  \/ \E s \in DOMAIN sweep : OnSetWarmUp(s)
  \/ \E c \in warm.timers : DebounceTimerFire(c)
  \/ \E k \in DOMAIN warm.runs : \E o \in OpenOutcomes : WarmUpOpenDone(k, o)
  \/ \E r \in PipeReqs : KeyBuilt(r)
  \/ \E r \in PipeReqs : MatchDone(r)
  \/ \E r \in PipeReqs : \E o \in WarmNetOutcomes : FetchDone(r, o)
  \/ \E r \in PipeReqs : PutDone(r)
  \/ \E r \in PipeReqs : SerializeDone(r)
  \/ \E key \in DOMAIN intervals["A"] : HeartbeatTick("A", key)
  \/ \E k \in DOMAIN warm.runs : WarmUpSettled(k)
  \/ AdvanceTimeOnSet

SpecWarm == InitSyncSpec /\ [][NextWarm]_vars

\* C36: a warm-up call made for a policy change is made after the stale
\* sweep of that change has completed, and so is the invocation (the
\* prefetches) that the call leads to.
C36_WarmUpAfterOwnSweep ==
  /\ \A c \in DOMAIN warm.calls :
       warm.calls[c].by > 0 =>
         /\ sweep[warm.calls[c].by].pc = "done"
         /\ sweep[warm.calls[c].by].doneAt <= warm.calls[c].at
  /\ \A k \in DOMAIN warm.runs :
       warm.calls[warm.runs[k].call].by > 0 =>
         /\ sweep[warm.calls[warm.runs[k].call].by].pc = "done"
         /\ sweep[warm.calls[warm.runs[k].call].by].doneAt <= warm.runs[k].at

\* the prefetches of the second policy change have started, and the sweep of
\* that change had entries to go through
C36_Witness ==
  \E k \in DOMAIN warm.runs :
    /\ warm.calls[warm.runs[k].call].by = 2
    /\ warm.runs[k].pc = "settle"
    /\ Len(sweep[2].list) > 0
    /\ sweep[2].doneAt > 0

\* C38 (as claimed): the response store never holds an entry whose origin
\* is listed in env.ignoreOrigins.
C38_IgnoredOriginNeverStored ==
  \A n \in 1..Len(store) : store[n].url.origin \notin ignoreOrigins

-----------------------------------------------------------------------------
(* A stream message that is not JSON *)

\* the 'message' event of socket k with a text JSON.parse rejects:
\* #handleMessage logs and rethrows, the listener added by connect() calls
\* reject().  A connect() of index.js that awaits the promise of this socket
\* catches, logs and starts the polling manager; its request goes on.
SocketMessageMalformed(k) ==
  /\ sync.sockets[k] = "open"
  /\ LET awaited == \E r \in ReqIds : req[r].sock = k
     IN sync' = IF awaited /\ sync.intervalDue = -1 /\ fallbackPollingIntervalMs > 0
                  THEN [sync EXCEPT !.intervalDue = now + fallbackPollingIntervalMs]
                  ELSE sync
  /\ req' = [r \in ReqIds |-> IF req[r].sock = k THEN [req[r] EXCEPT !.sock = 0]
                                ELSE req[r]]
  /\ UNCHANGED <<warm, now, current, store, inFlight, deferred, heartbeats, intervals,
                 timeouts, chan, sweep, sets, alive, peerSeen, persist>>

\* One request under a complete env and a stream that may send anything
NextMalformed ==
  \/ \E d \in ConnectInputs : InterceptConnect(1, d, "socket")
  \/ RequestStep(1)
  \/ StreamStep
  \/ \E k \in DOMAIN sync.sockets : SocketMessageMalformed(k)

SpecMalformed == InitSyncSpec /\ [][NextMalformed]_vars

\* C37 (as claimed): a stream message that is not valid JSON leads to the
\* disconnect handling (onDisconnect fires: the store's reset is started;
\* a reconnect is scheduled after the current backoff), and onReceive is
\* not invoked for it.
C37_MalformedTakesErrorPath ==
  [][\A k \in DOMAIN sync.sockets :
       SocketMessageMalformed(k) =>
         /\ Len(sync'.tasks) = Len(sync.tasks) + 1
         /\ sync'.reconnectDue = now + sync.reconnectBackoffMs
         /\ ~OnReceiveCalled]_vars

-----------------------------------------------------------------------------
(* The durable record and the expiry timer across several set calls *)

\* every set, cleanup and load call has ended, none of them by rejecting,
\* and the service worker was not installed anew: #current is the argument
\* of the last set call
SetsCompleted ==
  /\ persist.calls = <<>>
  /\ persist.threw = 0
  /\ persist.restarts = 0
  /\ persist.started.set + persist.started.reset > 0

\* C39 (as claimed): after any sequence of completed set / reset calls the
\* durable record is absent or holds the policy most recently passed to set.
C39_RecordIsLatestOrAbsent ==
  SetsCompleted =>
    \/ persist.record = NoRecord
    \/ persist.record.config = current["A"]

\* C40 (as claimed): at most one expiry timer is pending, and it belongs to
\* the active policy: that policy has a cacheTTL, it is the one the durable
\* record holds, and the timer is due when the record expires.
C40_OneTimerOfActivePolicy ==
  /\ Cardinality(persist.timers) <= 1
  /\ \A t \in persist.timers :
       /\ current["A"] # NoPolicy
       /\ Has(current["A"], "cacheTTL")
       /\ persist.record.config = current["A"]
       /\ t = persist.record.savedAt + current["A"].cacheTTL

====
